---- MODULE Spec2Model ----
(***************************************************************************)
(* Delivery backend: the order lifecycle (app/models/delivery.py and the   *)
(* order, courier and admin routes) and the M-Pesa payment pipeline        *)
(* (app/models/payment.py, app/routes/payment_routes.py,                   *)
(* app/services/payment_service.py).                                       *)
(*                                                                         *)
(* The state is the committed content of the database plus the requests    *)
(* that are between their two commits (payment initiation and status       *)
(* polling remove the session after the first).  A handler that raises     *)
(* inside its try block ends in db.session.rollback(): its action changes  *)
(* only the response.                                                      *)
(*                                                                         *)
(* The application as the repository has it does not start: create_app     *)
(* (app/__init__.py) reads os.getenv at line 30 and the module never       *)
(* imports os, so run.py and app.py raise NameError before a single route  *)
(* is registered.  Behind that, line 77 imports five Courier...Resource    *)
(* classes that courier_routes.py does not define (its blueprint courier_bp*)
(* is registered nowhere), and line 92 imports order_routes.py, whose      *)
(* line 10 imports Notification from app.models, which does not export it. *)
(* Spec is the application: it answers no request.                         *)
(*                                                                         *)
(* The other specifications are about the view functions themselves, as    *)
(* their text reads, called one after another on one database (for the     *)
(* functions of order_routes.py with Notification being the class          *)
(* app.models.notification.Notification that its line 10 names).           *)
(*                                                                         *)
(* SpecLifecycle : the view functions that read or write an order, and     *)
(*                 direct calls of DeliveryOrder.update_status followed by *)
(*                 a commit (the view functions reach update_status only   *)
(*                 through code that raises before its commit, see below). *)
(* SpecDeliver   : order creation, courier assignment and the status       *)
(*                 updates, each called again and again (weak fairness).   *)
(* SpecPay       : order creation and cancellation, the view functions of  *)
(*                 payment_routes.py, and Payment.initiate_refund followed *)
(*                 by a commit (no view function calls it).                *)
(***************************************************************************)
EXTENDS Integers, Sequences, FiniteSets, TLC

\* ---------------------------------------------------------------- bounds
MaxOrders == 1      \* orders that create_order may insert
MaxClock == 2       \* readings of datetime.utcnow() / db.func.now()
MaxCid == 2         \* checkout request ids a callback or a query may name
MaxReq == 1         \* requests between their two commits at one time
MaxTrack == 2       \* tracking rows per order that a destination update or a ping may add to

\* ------------------------------------------------------------ value sets
None == 0           \* NULL column / Python None, for ids and timestamps

\* the ids of the users who send requests, registered through POST
\* /api/auth/register: an admin, a courier, a customer
Users == {1, 2, 3}

\* User.query.get(current_user_id).role
role(u) == CASE u = 1 -> "admin" [] u = 2 -> "courier" [] OTHER -> "customer"

\* str(value)
Str(value) == <<"str", value>>

\* the Python value read from an Integer column: None or an int
Column(value) == IF value = None THEN <<"NoneType", None>> ELSE <<"int", value>>

\* get_jwt_identity() in a request of user u: register, login and refresh
\* issue the token with identity=str(user.id), so the identity is a string.
\* A handler that compares it with an Integer column compares an int (or
\* None) with a str, which Python never finds equal.
get_jwt_identity(u) == Str(u)

\* class OrderStatus: there is no ASSIGNED member
OrderStatus == {"PENDING", "PICKED_UP", "IN_TRANSIT", "DELIVERED", "CANCELLED"}

\* what a request may carry as a status string
StatusStrings == OrderStatus \cup {"ASSIGNED"}

PaymentStatus == {"PENDING", "PROCESSING", "PAID", "FAILED", "REFUNDED", "CANCELLED"}

Phones == {1}
Dests == {1, 2}             \* destination points a payload may name
Pickups == {3}              \* pickup points

\* parcels, as weight (3 kg, 12 kg, 25 kg, 60 kg) and the extras asked for: a
\* small one without extras, a small fragile one, a medium fragile express
\* one, a medium one with all four extras, a large insured one, a very
\* large one sent at the weekend
Parcels ==
    {<<3000, <<FALSE, FALSE, FALSE, FALSE>>>>, <<3000, <<TRUE, FALSE, FALSE, FALSE>>>>,
     <<12000, <<TRUE, FALSE, TRUE, FALSE>>>>, <<12000, <<TRUE, TRUE, TRUE, TRUE>>>>,
     <<25000, <<FALSE, TRUE, FALSE, FALSE>>>>, <<60000, <<FALSE, FALSE, FALSE, TRUE>>>>}

Pings == {4}                \* points a courier reports
Receipts == {None, 1}

\* ------------------------------------------------- DeliveryOrder methods
can_update_destination(status) == status \in {"PENDING"}

\* variant: an order on its way can still be cancelled
can_cancel_in_transit(status) == status \in {"PENDING", "PICKED_UP", "IN_TRANSIT"}

can_cancel(status) == status \in {"PENDING", "PICKED_UP"}

\* variant: a cancelled order can be reopened
status_flow_reopens(status) ==
    CASE status = "PENDING"    -> {"PICKED_UP", "CANCELLED"}
      [] status = "PICKED_UP"  -> {"IN_TRANSIT", "CANCELLED"}
      [] status = "IN_TRANSIT" -> {"DELIVERED"}
      [] status = "DELIVERED"  -> {}
      [] status = "CANCELLED"  -> {"PENDING"}
      [] OTHER                 -> {}

status_flow(status) ==
    CASE status = "PENDING"    -> {"PICKED_UP", "CANCELLED"}
      [] status = "PICKED_UP"  -> {"IN_TRANSIT", "CANCELLED"}
      [] status = "IN_TRANSIT" -> {"DELIVERED"}
      [] status = "DELIVERED"  -> {}
      [] status = "CANCELLED"  -> {}
      [] OTHER                 -> {}

\* update_status raises ValueError exactly when this is FALSE
update_status_ok(order, new_status) == new_status \in status_flow(order.status)

\* variant: the delivery timestamp is left to the caller
update_status_no_timestamp(order, new_status, courier_id, t) ==
    [order EXCEPT
        !.status = new_status,
        !.courier_id =
            IF new_status = "PICKED_UP" /\ courier_id # None THEN courier_id ELSE @]

\* the order after update_status(new_status, courier_id) returned normally
update_status(order, new_status, courier_id, t) ==
    [order EXCEPT
        !.status = new_status,
        !.actual_delivery_time = IF new_status = "DELIVERED" THEN t ELSE @,
        !.courier_id =
            IF new_status = "PICKED_UP" /\ courier_id # None THEN courier_id ELSE @]

\* ------------------------------------------------------- Payment methods
\* variant: a Payment counts as paid only once a receipt number is stored
is_paid_with_receipt(p) == p.payment_status = "PAID" /\ p.mpesa_receipt_number # None

is_paid(p) == p.payment_status = "PAID"

\* variant: a payment still being processed can be refunded
can_refund_unpaid(p) == p.payment_status \in {"PAID", "PROCESSING"}

can_refund(p) == p.payment_status = "PAID" /\ p.paid_at # None

\* variant: the status is set, the time of payment is not
mark_as_paid_no_timestamp(p, receipt_number, t) ==
    [p EXCEPT !.payment_status = "PAID",
              !.mpesa_receipt_number = IF receipt_number # None THEN receipt_number ELSE @]

mark_as_paid(p, receipt_number, t) ==
    [p EXCEPT
        !.payment_status = "PAID",
        !.paid_at = t,
        !.mpesa_receipt_number = IF receipt_number # None THEN receipt_number ELSE @]

mark_as_failed(p, reason, t) ==
    [p EXCEPT
        !.payment_status = "FAILED",
        !.failed_at = t,
        !.failure_reason = IF reason # "" THEN reason ELSE @]

\* initiate_refund raises ValueError exactly when can_refund is FALSE
initiate_refund(p, reason, t) ==
    [p EXCEPT
        !.payment_status = "REFUNDED",
        !.refunded_at = t,
        !.refund_reason = IF reason # "" THEN reason ELSE @]

\* ----------------------------------------------------------- MapsService
\* Distances are in hundredths of a km (distance_km is rounded to 2 places),
\* money in hundredths of a KES (the Numeric(10, 2) columns), weights in thousandths of a kg.
\* The points of the model, as (latitude, longitude):
\*   1  (-1.2292, 36.82)    2  (-1.0952, 36.82)    3  (-1.32, 36.82)
\*   4  (-1.28, 36.9)       5  (1.32, -143.18)
\* What the routing provider answers for a pair (distance_meters / 1000
\* rounded to 2 places): 12.5 km to point 1, 30 km to any other point
Road(origin, destination) == IF destination = 1 THEN 1250 ELSE 3000

\* round(d, 2) of calculate_haversine for each pair of points: row origin,
\* column destination
Haversine(origin, destination) ==
    <<<<0, 1490, 1010, 1054, 2000499>>,
      <<1490, 0, 2500, 2239, 1999009>>,
      <<1010, 2500, 0, 994, 0>>,
      <<1054, 2239, 994, 0, 2000514>>,
      <<2000499, 1999009, 0, 2000514, 0>>>>[origin][destination]

\* Point 5 is the point opposite point 3 on the globe.  For this pair the
\* float a of calculate_haversine is greater than 1 and math.sqrt(1 - a)
\* raises ValueError ("math domain error"), in either direction.
Antipodes == {<<3, 5>>, <<5, 3>>}

\* MapsService.calculate_haversine: the except branch answers status error
calculate_haversine(origin, destination) ==
    IF <<origin, destination>> \in Antipodes
    THEN [distance_km |-> 0, status |-> "error"]
    ELSE [distance_km |-> Haversine(origin, destination), status |-> "success"]

\* MapsService.calculate_distance; google is "none" (no API key, client is
\* None), "ok" (element status OK), or the provider raises ("raises",
\* "fail"), answers an element that is not OK ("not_ok") or a response
\* without rows ("malformed": IndexError): all but "ok" fall through to the
\* great-circle formula, which needs both coordinate pairs
calculate_distance(origin, destination, google) ==
    IF google = "ok"
    THEN [distance_km |-> Road(origin, destination), status |-> "success"]
    ELSE IF origin # None /\ destination # None
    THEN calculate_haversine(origin, destination)
    ELSE [distance_km |-> 0, status |-> "error"]

\* -------------------------------------------------------- float (double)
\* Python's float is the IEEE 754 binary64: a 53-bit significand and a power
\* of two.  Integers of that size do not fit a machine word of the model
\* checker, so a non-negative integer is kept as its digits in base 2^14,
\* least significant first (Big), and a non-negative float as m * 2^e with m
\* such an integer.
LimbBits == 14
LimbBase == 2 ^ LimbBits

\* The operations are functions: a function is applied to the value of its
\* argument, so that no operand is worked out more than once.

\* the digits of a non-negative machine integer
BigOfInt[k \in Nat] ==
    IF k = 0 THEN <<>> ELSE <<k % LimbBase>> \o BigOfInt[k \div LimbBase]

\* the machine integer of the digits (the caller knows that it fits)
BigToInt[a \in Seq(Nat)] ==
    IF a = <<>> THEN 0 ELSE a[1] + LimbBase * BigToInt[Tail(a)]

BigLimb(a, i) == IF i \in DOMAIN a THEN a[i] ELSE 0

\* a + b, digit by digit with the carry c
BigAdd[a \in Seq(Nat), b \in Seq(Nat)] ==
    LET from[i \in Nat, c \in Nat] ==
            IF i > Len(a) /\ i > Len(b)
            THEN IF c = 0 THEN <<>> ELSE <<c>>
            ELSE LET s == BigLimb(a, i) + BigLimb(b, i) + c
                 IN <<s % LimbBase>> \o from[i + 1, s \div LimbBase]
    IN from[1, 0]

\* a * k for a machine integer k < 2^16
BigMulSmall[a \in Seq(Nat), k \in Nat] ==
    LET from[i \in Nat, c \in Nat] ==
            IF i > Len(a)
            THEN BigOfInt[c]
            ELSE LET s == a[i] * k + c
                 IN <<s % LimbBase>> \o from[i + 1, s \div LimbBase]
    IN from[1, 0]

\* a divided by a machine integer k < 2^16, from the most significant digit
\* down with the remainder r: the digits of the quotient and the remainder
BigDivSmall[a \in Seq(Nat), k \in Nat] ==
    LET from[i \in Nat, r \in Nat] ==
            IF i = 0
            THEN <<r>>
            ELSE LET s == r * LimbBase + a[i]
                 IN from[i - 1, s % k] \o <<s \div k>>
        digits == from[Len(a), 0]
    IN [q |-> Tail(digits), r |-> Head(digits)]

\* a * b for significands (at most four digits each): digit k of the
\* product is the sum of the products a[i] * b[j] that land on it (column)
\* and the carry c
BigMul[a \in Seq(Nat), b \in Seq(Nat)] ==
    LET column[k \in Nat, i \in Nat] ==
            IF i > Len(a) THEN 0
            ELSE (IF k + 1 - i \in DOMAIN b THEN a[i] * b[k + 1 - i] ELSE 0)
                 + column[k, i + 1]
        from[k \in Nat, c \in Nat] ==
            IF k > Len(a) + Len(b)
            THEN BigOfInt[c]
            ELSE LET s == column[k, 1] + c
                 IN <<s % LimbBase>> \o from[k + 1, s \div LimbBase]
    IN from[1, 0]

\* the number of binary digits of a
BigBitLen[a \in Seq(Nat)] ==
    LET bits[k \in Nat] == IF k = 0 THEN 0 ELSE 1 + bits[k \div 2]
    IN IF a = <<>> THEN 0
       ELSE IF a[Len(a)] = 0 THEN BigBitLen[SubSeq(a, 1, Len(a) - 1)]
       ELSE (Len(a) - 1) * LimbBits + bits[a[Len(a)]]

\* a * 2^s
BigShiftLeft[a \in Seq(Nat), s \in Nat] ==
    [i \in 1..(s \div LimbBits) |-> 0] \o BigMulSmall[a, 2 ^ (s % LimbBits)]

\* a divided by 2^s, rounded down
BigShiftRight[a \in Seq(Nat), s \in Nat] ==
    IF s \div LimbBits >= Len(a) THEN <<>>
    ELSE BigDivSmall[SubSeq(a, s \div LimbBits + 1, Len(a)), 2 ^ (s % LimbBits)].q

\* a / 2^s rounded to the nearest integer, a tie to the even one; `inexact`
\* says that the value a stands for is slightly more than a.  bit(i) is
\* binary digit i of a (digit 0 is the least significant), low(i) says that
\* a has a binary digit 1 below digit i
BigRoundShift[a \in Seq(Nat), s \in Nat, inexact \in BOOLEAN] ==
    LET bit(i) == (BigLimb(a, i \div LimbBits + 1) \div 2 ^ (i % LimbBits)) % 2
        low(i) ==
            \/ \E n \in 1..(i \div LimbBits) : BigLimb(a, n) # 0
            \/ BigLimb(a, i \div LimbBits + 1) % 2 ^ (i % LimbBits) # 0
        up == /\ s > 0
              /\ bit(s - 1) = 1
              /\ (low(s - 1) \/ inexact \/ bit(s) = 1)
    IN IF up THEN BigAdd[BigShiftRight[a, s], <<1>>] ELSE BigShiftRight[a, s]

\* the non-negative floats: m * 2^e
Floats == [m : Seq(Nat), e : Int]

\* the float nearest to m * 2^e (slightly more, if inexact): round to
\* nearest, ties to even, on 53 binary digits
Float[m \in Seq(Nat), e \in Int, inexact \in BOOLEAN] ==
    IF BigBitLen[m] <= 53
    THEN [m |-> m, e |-> e]
    ELSE [m |-> BigRoundShift[m, BigBitLen[m] - 53, inexact], e |-> e + BigBitLen[m] - 53]

\* the float of a decimal literal or of round(x, 2): the float nearest to
\* n / 100
FloatOfHundredths[n \in Nat] ==
    LET d == BigDivSmall[BigShiftLeft[BigOfInt[n], 5 * LimbBits], 100]
    IN Float[d.q, -5 * LimbBits, d.r # 0]

\* float(k) of a small integer k: exact
FloatOfInt[k \in Nat] == [m |-> BigOfInt[k], e |-> 0]

\* a * b and a + b of two floats
FloatMul[a \in Floats, b \in Floats] ==
    Float[BigMul[a.m, b.m], a.e + b.e, FALSE]

FloatAdd[a \in Floats, b \in Floats] ==
    LET e == IF a.e < b.e THEN a.e ELSE b.e
    IN Float[BigAdd[BigShiftLeft[a.m, a.e - e], BigShiftLeft[b.m, b.e - e]], e, FALSE]

\* round(x, 2) of a float x >= 0, in hundredths: Python rounds the exact
\* value of the float to the nearest hundredth, a tie to the even one
round2[x \in Floats] ==
    BigToInt[IF x.e >= 0 THEN BigShiftLeft[BigMulSmall[x.m, 100], x.e]
             ELSE BigRoundShift[BigMulSmall[x.m, 100], -x.e, FALSE]]

\* -------------------------------------------------------- PricingService
\* BASE_PRICE and DISTANCE_RATE are in KES; the four percentages are the
\* hundredths of the literals 0.15, 0.10, 0.25 and 0.20
BASE_PRICE == 0
DISTANCE_RATE == 1
FRAGILE_CHARGE_PERCENT == 15
INSURANCE_CHARGE_PERCENT == 10
EXPRESS_CHARGE_PERCENT == 25
WEEKEND_CHARGE_PERCENT == 20
NORMAL_SPEED_KMH == 40
EXPRESS_SPEED_KMH == 60

\* weights are in thousandths of a kilogram
determine_weight_category(weight_kg) ==
    IF weight_kg < 5000 THEN "SMALL"
    ELSE IF weight_kg < 20000 THEN "MEDIUM"
    ELSE IF weight_kg < 50000 THEN "LARGE"
    ELSE "XLARGE"

\* WEIGHT_PRICES.get(weight_category, 150), in KES
WEIGHT_PRICES(weight_category) ==
    IF weight_category \in {"SMALL", "MEDIUM", "LARGE", "XLARGE"} THEN 0 ELSE 150

\* variant: each charge is taken from the subtotal plus the charges before it
calculate_price_breakdown_compounded(distance_km, weight_kg, is_fragile, needs_insurance, is_express, is_weekend) ==
    LET base_price == BASE_PRICE
        distance_price == FloatMul[FloatOfHundredths[distance_km], FloatOfInt[DISTANCE_RATE]]
        weight_price == WEIGHT_PRICES(determine_weight_category(weight_kg))
        subtotal ==
            FloatAdd[FloatAdd[FloatOfInt[base_price], distance_price], FloatOfInt[weight_price]]
        charge(active, base, percent) ==
            IF active THEN FloatMul[base, FloatOfHundredths[percent]] ELSE FloatOfInt[0]
        fragile_charge == charge(is_fragile, subtotal, FRAGILE_CHARGE_PERCENT)
        with_fragile == FloatAdd[subtotal, fragile_charge]
        insurance_charge == charge(needs_insurance, with_fragile, INSURANCE_CHARGE_PERCENT)
        with_insurance == FloatAdd[with_fragile, insurance_charge]
        express_charge == charge(is_express, with_insurance, EXPRESS_CHARGE_PERCENT)
        with_express == FloatAdd[with_insurance, express_charge]
        weekend_charge == charge(is_weekend, with_express, WEEKEND_CHARGE_PERCENT)
        total_extra ==
            FloatAdd[FloatAdd[FloatAdd[fragile_charge, insurance_charge], express_charge],
                     weekend_charge]
        total_price == FloatAdd[subtotal, total_extra]
    IN [base_price |-> 100 * base_price,
        distance_price |-> round2[distance_price],
        weight_price |-> 100 * weight_price,
        extra_charges |->
            [fragile |-> round2[fragile_charge],
             insurance |-> round2[insurance_charge],
             express |-> round2[express_charge],
             weekend |-> round2[weekend_charge],
             total |-> round2[total_extra]],
        total_price |-> round2[total_price]]

\* PricingService.calculate_price_breakdown, computed in floats as the code
\* computes it: each charge is the float product of the subtotal and the
\* percentage, total_extra the float sum of the four charges from left to
\* right and total_price the float sum of subtotal and total_extra; every
\* amount returned is rounded by itself with round(x, 2).  The amounts of
\* the result are in hundredths.
calculate_price_breakdown(distance_km, weight_kg, is_fragile, needs_insurance, is_express, is_weekend) ==
    LET base_price == BASE_PRICE
        distance_price == FloatMul[FloatOfHundredths[distance_km], FloatOfInt[DISTANCE_RATE]]
        weight_price == WEIGHT_PRICES(determine_weight_category(weight_kg))
        subtotal ==
            FloatAdd[FloatAdd[FloatOfInt[base_price], distance_price], FloatOfInt[weight_price]]
        charge(active, percent) ==
            IF active THEN FloatMul[subtotal, FloatOfHundredths[percent]] ELSE FloatOfInt[0]
        fragile_charge == charge(is_fragile, FRAGILE_CHARGE_PERCENT)
        insurance_charge == charge(needs_insurance, INSURANCE_CHARGE_PERCENT)
        express_charge == charge(is_express, EXPRESS_CHARGE_PERCENT)
        weekend_charge == charge(is_weekend, WEEKEND_CHARGE_PERCENT)
        total_extra ==
            FloatAdd[FloatAdd[FloatAdd[fragile_charge, insurance_charge], express_charge],
                     weekend_charge]
        total_price == FloatAdd[subtotal, total_extra]
    IN [base_price |-> 100 * base_price,
        distance_price |-> round2[distance_price],
        weight_price |-> 100 * weight_price,
        extra_charges |->
            [fragile |-> round2[fragile_charge],
             insurance |-> round2[insurance_charge],
             express |-> round2[express_charge],
             weekend |-> round2[weekend_charge],
             total |-> round2[total_extra]],
        total_price |-> round2[total_price]]

\* variant: the express speed is used for the normal delivery and the
\* normal speed for the express one
calculate_estimated_delivery_time_swapped(distance_km, is_express) ==
    LET speed_kmh == IF is_express THEN NORMAL_SPEED_KMH ELSE EXPRESS_SPEED_KMH
        total_minutes == (distance_km * 60 + 15 * speed_kmh * 100) \div (speed_kmh * 100)
        capped == IF total_minutes < 480 THEN total_minutes ELSE 480
    IN IF capped > 30 THEN capped ELSE 30

\* PricingService.calculate_estimated_delivery_time, in minutes:
\* int(distance / speed * 60 + 15), then max(30, min(., 480))
calculate_estimated_delivery_time(distance_km, is_express) ==
    LET speed_kmh == IF is_express THEN EXPRESS_SPEED_KMH ELSE NORMAL_SPEED_KMH
        total_minutes == (distance_km * 60 + 15 * speed_kmh * 100) \div (speed_kmh * 100)
        capped == IF total_minutes < 480 THEN total_minutes ELSE 480
    IN IF capped > 30 THEN capped ELSE 30

\* variant: the estimate is always that of a normal delivery
create_order_summary_normal_estimate(validated_data, google) ==
    LET distance_km ==
            calculate_distance(validated_data.pickup, validated_data.destination,
                               google).distance_km
    IN [distance_km |-> distance_km,
        estimated_minutes |-> calculate_estimated_delivery_time(distance_km, FALSE),
        price_breakdown |->
            calculate_price_breakdown(distance_km, validated_data.weight_kg,
                validated_data.fragile, validated_data.insurance_required,
                validated_data.is_express, validated_data.is_weekend),
        weight_category |-> determine_weight_category(validated_data.weight_kg)]

\* PricingService.create_order_summary
create_order_summary(validated_data, google) ==
    LET distance_km ==
            calculate_distance(validated_data.pickup, validated_data.destination,
                               google).distance_km
    IN [distance_km |-> distance_km,
        estimated_minutes |->
            calculate_estimated_delivery_time(distance_km, validated_data.is_express),
        price_breakdown |->
            calculate_price_breakdown(distance_km, validated_data.weight_kg,
                validated_data.fragile, validated_data.insurance_required,
                validated_data.is_express, validated_data.is_weekend),
        weight_category |-> determine_weight_category(validated_data.weight_kg)]

\* ------------------------------------------------------------------ state
VARIABLES
    orders,         \* delivery_orders rows, by id: status, user_id, courier_id, ...
    payments,       \* payments rows; payments[o] is the row with order_id = o
    tracking,       \* order_tracking rows of each order, oldest first: status, point
    notifications,  \* number of notifications rows of each order
    inflight,       \* initiations and polls between their two commits
    clock,          \* number of time readings taken so far
    resp,           \* the last response: handler, HTTP status code, exception
    call            \* a call of a service function: name, arguments, result

vars == <<orders, payments, tracking, notifications, inflight, clock, resp, call>>

db == <<orders, payments, tracking, notifications>>

OrderIds == 1..MaxOrders

\* the reading datetime.utcnow() gives to the handler that takes the step
now == clock + 1

\* the handler (or method) that answered, the HTTP status code (0: a direct
\* call), and the exception a 500 or a direct call reports, "" when none
ReplyErr(op, code, err) == [op |-> op, code |-> code, err |-> err]

Reply(op, code) == ReplyErr(op, code, "")

\* what a Numeric(p, 2) column keeps of a value v >= 0 given in thousandths:
\* the nearest hundredth, a tie going away from zero
Numeric2(v) == ((v + 5) \div 10) * 10

\* an order_tracking row: its status and its latitude / longitude
TrackingRow(status, point) == [status |-> status, point |-> point]

\* db.session.add(tracking): the row joins the rows the order already has
add_tracking(rows, row) == Append(rows, row)

\* variant: the row of a cancellation is built before update_status is
\* called and carries the status the order had
cancel_tracking_stale(order) == TrackingRow(order.status, order.pickup)

\* OrderTracking(...) of cancel_order: status=OrderStatus.CANCELLED at the
\* order's pickup point
cancel_tracking(order) == TrackingRow("CANCELLED", order.pickup)

\* DeliveryOrder(...) of create_order, status=OrderStatus.PENDING; the
\* tracking number is generated (made unique here by the order's id);
\* estimated_delivery_time is stored as utcnow() plus estimated_minutes
NewOrder(u, validated_data, order_summary, id) ==
    [status |-> "PENDING", user_id |-> u, courier_id |-> None,
     tracking_number |-> id,
     pickup |-> validated_data.pickup,
     destination |-> validated_data.destination,
     weight_kg |-> Numeric2(validated_data.weight_kg),
     weight_category |-> determine_weight_category(validated_data.weight_kg),
     fragile |-> validated_data.fragile,
     insurance_required |-> validated_data.insurance_required,
     is_express |-> validated_data.is_express,
     is_weekend |-> validated_data.is_weekend,
     distance_km |-> order_summary.distance_km,
     base_price |-> order_summary.price_breakdown.base_price,
     distance_price |-> order_summary.price_breakdown.distance_price,
     weight_price |-> order_summary.price_breakdown.weight_price,
     extra_charges |-> order_summary.price_breakdown.extra_charges.total,
     total_price |-> order_summary.price_breakdown.total_price,
     estimated_minutes |-> order_summary.estimated_minutes,
     actual_delivery_time |-> None]

\* variant: the payment is created without an amount, to be priced later
NewPaymentUnpriced(amount) ==
    [payment_status |-> "PENDING", amount |-> None, customer_phone |-> None,
     checkout_request_id |-> None, mpesa_receipt_number |-> None,
     paid_at |-> None, failed_at |-> None, refunded_at |-> None,
     failure_reason |-> "", refund_reason |-> ""]

\* Payment(order_id=order.id, amount=order.total_price, payment_status='PENDING')
NewPayment(amount) ==
    [payment_status |-> "PENDING", amount |-> amount, customer_phone |-> None,
     checkout_request_id |-> None, mpesa_receipt_number |-> None,
     paid_at |-> None, failed_at |-> None, refunded_at |-> None,
     failure_reason |-> "", refund_reason |-> ""]

\* a call of a service function with its arguments, before it returns
Call(fn, args) == [fn |-> fn, args |-> args, done |-> FALSE, result |-> <<>>]

NoCall == Call("none", <<>>)

\* the call returns
Return(result) == call' = [call EXCEPT !.done = TRUE, !.result = result]

Init ==
    /\ orders = <<>>
    /\ payments = <<>>
    /\ tracking = <<>>
    /\ notifications = <<>>
    /\ inflight = {}
    /\ clock = 0
    /\ resp = Reply("none", 0)
    /\ call = NoCall

\* --------------------------------------------------------- OrderValidator
\* A request body is the JSON object: a function from the keys it has to
\* their values.  A latitude or longitude is in ten-thousandths of a degree
\* (90 degrees are 900000); a weight is in thousandths of a kilogram; an
\* address is the length of the stripped string; the keys pickup and
\* destination are not part of the JSON: they name the point of the model
\* the coordinate pair denotes.
MIN_WEIGHT == 100
MAX_WEIGHT == 200000
KENYA_LAT_MIN == -47000
KENYA_LAT_MAX == 49000

\* the coordinates of the points of the model
Latitude(point) == <<-12292, -10952, -13200, -12800, 13200>>[point]

Longitude(point) == <<368200, 368200, 368200, 369000, -1431800>>[point]

\* the body without one of its keys
Without(data, key) == [k \in DOMAIN data \ {key} |-> data[k]]

AddressFields == {"pickup_address", "destination_address"}

\* required_fields of validate_create_order
CreateRequired ==
    {"pickup_lat", "pickup_lng", "pickup_address", "destination_lat",
     "destination_lng", "destination_address", "weight_kg"}

\* required_fields of validate_update_destination
DestinationRequired == {"destination_lat", "destination_lng", "destination_address"}

\* not (-90 <= lat <= 90), not (-180 <= lng <= 180): the key in error
range_errors(data, lat_key, lng_key) ==
    {k \in {lat_key} : data[k] < -900000 \/ data[k] > 900000} \cup
    {k \in {lng_key} : data[k] < -1800000 \/ data[k] > 1800000}

\* the check against the bounds of Kenya: latitudes only, and none for a
\* latitude of 0; the error is filed under the key of the location
kenya_errors(data) ==
    LET outside(lat) == lat # 0 /\ (lat < KENYA_LAT_MIN \/ lat > KENYA_LAT_MAX)
    IN {k \in {"pickup_location"} : outside(data.pickup_lat)} \cup
       {k \in {"destination_location"} : outside(data.destination_lat)}

\* weight_kg < MIN_WEIGHT, elif weight_kg > MAX_WEIGHT
weight_errors(weight_kg) ==
    IF weight_kg < MIN_WEIGHT THEN {"weight_kg"}
    ELSE IF weight_kg > MAX_WEIGHT THEN {"weight_kg"}
    ELSE {}

\* an address shorter than 3 or longer than 500 characters
address_errors(data, keys) == {k \in keys : data[k] < 3 \/ data[k] > 500}

\* bool(data.get(key, False))
flag(data, key) == IF key \in DOMAIN data THEN data[key] ELSE FALSE

\* validate_create_order: (is_valid, validated_data, errors); the first
\* return is for required fields that are missing or blank
validate_create_order(data) ==
    LET missing == {k \in CreateRequired :
                       k \notin DOMAIN data \/ (k \in AddressFields /\ data[k] = 0)}
        errors == range_errors(data, "pickup_lat", "pickup_lng") \cup
                  range_errors(data, "destination_lat", "destination_lng") \cup
                  kenya_errors(data) \cup weight_errors(data.weight_kg) \cup
                  address_errors(data, AddressFields)
    IN IF missing # {}
       THEN [is_valid |-> FALSE, validated_data |-> <<>>, errors |-> missing]
       ELSE IF errors # {}
       THEN [is_valid |-> FALSE, validated_data |-> <<>>, errors |-> errors]
       ELSE [is_valid |-> TRUE, errors |-> {},
             validated_data |->
                 [pickup |-> data.pickup, destination |-> data.destination,
                  weight_kg |-> data.weight_kg,
                  fragile |-> flag(data, "fragile"),
                  insurance_required |-> flag(data, "insurance_required"),
                  is_express |-> flag(data, "is_express"),
                  is_weekend |-> flag(data, "is_weekend")]]

\* validate_update_destination: (is_valid, validated_data, errors)
validate_update_destination(data) ==
    LET missing == {k \in DestinationRequired : k \notin DOMAIN data}
        ranges == range_errors(data, "destination_lat", "destination_lng")
        errors == address_errors(data, {"destination_address"})
    IN IF missing # {}
       THEN [is_valid |-> FALSE, validated_data |-> <<>>, errors |-> missing]
       ELSE IF ranges # {}
       THEN [is_valid |-> FALSE, validated_data |-> <<>>, errors |-> {"coordinates"}]
       ELSE IF errors # {}
       THEN [is_valid |-> FALSE, validated_data |-> <<>>, errors |-> errors]
       ELSE [is_valid |-> TRUE, errors |-> {},
             validated_data |-> [destination |-> data.destination]]

\* ---------------------------------------------------------- order routes
\* POST /api/orders: order, first tracking row, payment and notification in
\* one commit; a payload the validator rejects is answered 400 before any
\* write; an exception in the try block (db_ok is FALSE: the flush or the
\* commit raises) ends in rollback and 500
create_order(u, data, google, is_valid, db_ok) ==
    /\ Len(orders) < MaxOrders
    /\ IF ~is_valid
       THEN /\ resp' = Reply("create_order", 400)
            /\ UNCHANGED <<orders, payments, tracking, notifications>>
       ELSE IF ~db_ok
       THEN /\ resp' = ReplyErr("create_order", 500, "Exception")
            /\ UNCHANGED <<orders, payments, tracking, notifications>>
       ELSE LET order == NewOrder(u, data, create_order_summary(data, google),
                                  Len(orders) + 1)
            IN /\ orders' = Append(orders, order)
               /\ tracking' = Append(tracking, <<TrackingRow("PENDING", data.pickup)>>)
               /\ payments' = Append(payments, NewPayment(order.total_price))
               /\ notifications' = Append(notifications, 1)
               /\ resp' = Reply("create_order", 201)
    /\ UNCHANGED <<inflight, clock, call>>

\* the order row after lines 235-267 of update_destination: the distance
\* from the stored pickup to the new destination, the price breakdown for
\* the stored weight and flags, the estimate; extra_charges is not assigned
new_destination(order, dest, google) ==
    LET new_distance == calculate_distance(order.pickup, dest, google)
        price_breakdown ==
            calculate_price_breakdown(new_distance.distance_km, order.weight_kg,
                order.fragile, order.insurance_required,
                order.is_express, order.is_weekend)
        estimated_minutes ==
            calculate_estimated_delivery_time(new_distance.distance_km, order.is_express)
    IN [order EXCEPT
           !.destination = dest,
           !.distance_km = new_distance.distance_km,
           !.distance_price = price_breakdown.distance_price,
           !.total_price = price_breakdown.total_price,
           !.estimated_minutes = estimated_minutes]

\* if order.payment: order.payment.amount = order.total_price
update_payment_amount(payment, order) == [payment EXCEPT !.amount = order.total_price]

\* variant: the handler without its checks of the sender and of the status
update_destination_unchecked(o, u, dest, google, is_valid, db_ok) ==
    /\ IF o \notin DOMAIN orders
       THEN /\ resp' = Reply("update_destination", 404)
            /\ UNCHANGED db
       ELSE IF ~is_valid
       THEN /\ resp' = Reply("update_destination", 400)
            /\ UNCHANGED db
       ELSE IF ~db_ok
       THEN /\ resp' = ReplyErr("update_destination", 500, "Exception")
            /\ UNCHANGED db
       ELSE LET order == new_destination(orders[o], dest, google)
            IN /\ Len(tracking[o]) < MaxTrack
               /\ orders' = [orders EXCEPT ![o] = order]
               /\ payments' = [payments EXCEPT ![o] = update_payment_amount(@, order)]
               /\ tracking' = [tracking EXCEPT
                      ![o] = add_tracking(@, TrackingRow("PENDING", dest))]
               /\ notifications' = [notifications EXCEPT ![o] = @ + 1]
               /\ resp' = Reply("update_destination", 200)
    /\ UNCHANGED <<inflight, clock, call>>

\* PATCH /api/orders/<id>/destination.  Line 219 compares order.user_id with
\* the identity of the token: 403 whenever they differ.  Past it, while
\* can_update_destination holds, the handler replaces the destination;
\* distance, distance_price, total_price, the estimate and the payment
\* amount are recomputed from the stored pickup, weight and flags
\* (extra_charges is not assigned); it adds a tracking row carrying
\* OrderStatus.PENDING at the new destination and a notification in the same
\* commit.  An exception in the try block (db_ok is FALSE) ends in rollback
\* and 500.
update_destination(o, u, dest, google, is_valid, db_ok) ==
    /\ IF o \notin DOMAIN orders
       THEN /\ resp' = Reply("update_destination", 404)
            /\ UNCHANGED db
       ELSE IF Column(orders[o].user_id) # get_jwt_identity(u)
       THEN /\ resp' = Reply("update_destination", 403)
            /\ UNCHANGED db
       ELSE IF ~can_update_destination(orders[o].status)
       THEN /\ resp' = Reply("update_destination", 400)
            /\ UNCHANGED db
       ELSE IF ~is_valid
       THEN /\ resp' = Reply("update_destination", 400)
            /\ UNCHANGED db
       ELSE IF ~db_ok
       THEN /\ resp' = ReplyErr("update_destination", 500, "Exception")
            /\ UNCHANGED db
       ELSE LET order == new_destination(orders[o], dest, google)
            IN /\ Len(tracking[o]) < MaxTrack
               /\ orders' = [orders EXCEPT ![o] = order]
               /\ payments' = [payments EXCEPT ![o] = update_payment_amount(@, order)]
               /\ tracking' = [tracking EXCEPT
                      ![o] = add_tracking(@, TrackingRow("PENDING", dest))]
               /\ notifications' = [notifications EXCEPT ![o] = @ + 1]
               /\ resp' = Reply("update_destination", 200)
    /\ UNCHANGED <<inflight, clock, call>>

\* POST /api/orders with the body as it arrives: the handler runs
\* validate_create_order on it first (lines 28-32)
post_order(u, data, google, db_ok) ==
    LET v == validate_create_order(data)
    IN create_order(u, v.validated_data, google, v.is_valid, db_ok)

\* PATCH /api/orders/<id>/destination with the body as it arrives: the
\* handler runs validate_update_destination on it (lines 228-232) after the
\* checks of the owner and of the status
patch_destination(o, u, data, google, db_ok) ==
    LET v == validate_update_destination(data)
        dest == IF v.is_valid THEN v.validated_data.destination ELSE None
    IN update_destination(o, u, dest, google, v.is_valid, db_ok)

\* POST /api/orders/<id>/cancel: status, payment status, tracking row and
\* notification in one commit; an exception in the try block (ValueError of
\* update_status, or db_ok is FALSE: the commit raises) ends in rollback, 500
cancel_order(o, u, db_ok) ==
    /\ IF o \notin DOMAIN orders
       THEN /\ resp' = Reply("cancel_order", 404)
            /\ UNCHANGED db
       ELSE IF role(u) = "USER" /\ Column(orders[o].user_id) # get_jwt_identity(u)
       THEN /\ resp' = Reply("cancel_order", 403)
            /\ UNCHANGED db
       ELSE IF role(u) = "COURIER"
       THEN /\ resp' = Reply("cancel_order", 403)
            /\ UNCHANGED db
       ELSE IF ~can_cancel(orders[o].status)
       THEN /\ resp' = Reply("cancel_order", 400)
            /\ UNCHANGED db
       ELSE IF ~update_status_ok(orders[o], "CANCELLED")
       THEN /\ resp' = ReplyErr("cancel_order", 500, "ValueError")
            /\ UNCHANGED db
       ELSE IF ~db_ok
       THEN /\ resp' = ReplyErr("cancel_order", 500, "Exception")
            /\ UNCHANGED db
       ELSE /\ orders' = [orders EXCEPT ![o] = update_status(@, "CANCELLED", None, now)]
            /\ payments' = [payments EXCEPT ![o].payment_status = "CANCELLED"]
            /\ tracking' = [tracking EXCEPT
                   ![o] = add_tracking(@, cancel_tracking(orders[o]))]
            /\ notifications' = [notifications EXCEPT ![o] = @ + 1]
            /\ resp' = Reply("cancel_order", 200)
    /\ UNCHANGED <<inflight, clock, call>>

\* ---------------------------------------------------------- admin routes
\* PATCH /api/admin/orders/<id>/assign.  Line 166 evaluates
\* OrderStatus.ASSIGNED, which class OrderStatus does not define: for every
\* order that exists the handler raises AttributeError inside its try block,
\* rolls back and answers 500.  Lines 171-221 (the courier checks, the
\* assignment and its side effects) are never executed.
AdminAssignCourier(o, c, u) ==
    /\ resp' = IF role(u) # "admin" THEN Reply("assign_courier", 403)
               ELSE IF o \notin DOMAIN orders THEN Reply("assign_courier", 404)
               ELSE ReplyErr("assign_courier", 500, "AttributeError")
    /\ UNCHANGED <<orders, payments, tracking, notifications, inflight, clock, call>>

\* variant: the status and its tracking row are committed before the
\* notification is built, so the NameError comes after a commit
AdminUpdateOrderStatusCommitsFirst(o, new_status, u) ==
    LET accepted == /\ role(u) = "admin" /\ new_status \in OrderStatus
                    /\ o \in DOMAIN orders /\ update_status_ok(orders[o], new_status)
    IN /\ resp' = IF role(u) # "admin" THEN Reply("admin_update_status", 403)
                  ELSE IF new_status \notin OrderStatus THEN Reply("admin_update_status", 400)
                  ELSE IF o \notin DOMAIN orders THEN Reply("admin_update_status", 404)
                  ELSE IF ~update_status_ok(orders[o], new_status)
                  THEN ReplyErr("admin_update_status", 500, "ValueError")
                  ELSE ReplyErr("admin_update_status", 500, "NameError")
       /\ IF accepted
          THEN /\ orders' = [orders EXCEPT ![o] = update_status(@, new_status, None, now)]
               /\ tracking' = [tracking EXCEPT
                      ![o] = add_tracking(@, TrackingRow(new_status, orders[o].pickup))]
          ELSE UNCHANGED <<orders, tracking>>
       /\ UNCHANGED <<payments, notifications, inflight, clock, call>>

\* PATCH /api/admin/orders/<id>/status.  OrderStatus(new_status) rejects a
\* string that is no member (400); update_status raises ValueError for a
\* transition outside status_flow; when it accepts, the handler adds the
\* tracking row and then evaluates Notification, a name admin_routes.py never
\* imports: NameError.  Both exceptions end in rollback and 500.
AdminUpdateOrderStatus(o, new_status, u) ==
    /\ resp' = IF role(u) # "admin" THEN Reply("admin_update_status", 403)
               ELSE IF new_status \notin OrderStatus THEN Reply("admin_update_status", 400)
               ELSE IF o \notin DOMAIN orders THEN Reply("admin_update_status", 404)
               ELSE IF ~update_status_ok(orders[o], new_status)
               THEN ReplyErr("admin_update_status", 500, "ValueError")
               ELSE ReplyErr("admin_update_status", 500, "NameError")
    /\ UNCHANGED <<orders, payments, tracking, notifications, inflight, clock, call>>

\* -------------------------------------------------------- courier routes
\* variant: a courier may also ask for CANCELLED
valid_courier_statuses_with_cancelled == {"PICKED_UP", "IN_TRANSIT", "DELIVERED", "CANCELLED"}

valid_courier_statuses == {"PICKED_UP", "IN_TRANSIT", "DELIVERED"}

\* PATCH /api/courier/orders/<id>/status.  get_or_404 raises inside the try
\* block (500).  Line 139 compares order.courier_id with the identity of the
\* token: 403 whenever they differ.  Past it, line 149 evaluates
\* OrderStatus.ASSIGNED: AttributeError, rollback, 500; lines 154-213 are
\* never executed.
update_order_status(o, new_status, u) ==
    /\ resp' = IF role(u) # "courier" THEN Reply("courier_update_status", 403)
               ELSE IF new_status \notin valid_courier_statuses
               THEN Reply("courier_update_status", 400)
               ELSE IF o \notin DOMAIN orders
               THEN ReplyErr("courier_update_status", 500, "NotFound")
               ELSE IF Column(orders[o].courier_id) # get_jwt_identity(u)
               THEN ReplyErr("courier_update_status", 403, "You are not assigned to this order")
               ELSE ReplyErr("courier_update_status", 500, "AttributeError")
    /\ UNCHANGED <<orders, payments, tracking, notifications, inflight, clock, call>>

\* [OrderStatus.PICKED_UP, OrderStatus.IN_TRANSIT]: the statuses in which a
\* location update is taken
active_delivery_statuses == {"PICKED_UP", "IN_TRANSIT"}

\* PATCH /api/courier/orders/<id>/location.  Line 270 compares
\* order.courier_id with the identity of the token: 403 whenever they
\* differ.  Past it, in an active delivery status, the handler adds one
\* tracking row with the order's status; the order row itself has no
\* location column.
update_location(o, u, point, coords_ok) ==
    /\ IF role(u) # "courier"
       THEN /\ resp' = Reply("update_location", 403)
            /\ UNCHANGED tracking
       ELSE IF ~coords_ok
       THEN /\ resp' = Reply("update_location", 400)
            /\ UNCHANGED tracking
       ELSE IF o \notin DOMAIN orders
       THEN /\ resp' = ReplyErr("update_location", 500, "NotFound")
            /\ UNCHANGED tracking
       ELSE IF Column(orders[o].courier_id) # get_jwt_identity(u)
       THEN /\ resp' = Reply("update_location", 403)
            /\ UNCHANGED tracking
       ELSE IF orders[o].status \notin active_delivery_statuses
       THEN /\ resp' = Reply("update_location", 400)
            /\ UNCHANGED tracking
       ELSE /\ Len(tracking[o]) < MaxTrack
            /\ tracking' = [tracking EXCEPT
                   ![o] = add_tracking(@, TrackingRow(orders[o].status, point))]
            /\ resp' = Reply("update_location", 200)
    /\ UNCHANGED <<orders, payments, notifications, inflight, clock, call>>

\* ------------------------------------------------------- payment gateway
\* MpesaService._format_phone.  A string is the sequence of the code points
\* of its characters: 32 the space, 43 "+", 45 "-", 48 to 57 the digits "0"
\* to "9".
\* str.strip(): without the whitespace at both ends.  Whitespace is what
\* str.isspace() accepts: tab, line feed, vertical tab, form feed, carriage
\* return, the four separators 28 to 31, the space, next line (133), the
\* no-break space (160) and the spaces of Unicode
Whitespace ==
    (9..13) \cup (28..32) \cup {133, 160, 5760} \cup (8192..8202) \cup
    {8232, 8233, 8239, 8287, 12288}

RECURSIVE lstrip(_)
lstrip(str) ==
    IF str # <<>> /\ Head(str) \in Whitespace THEN lstrip(Tail(str)) ELSE str

RECURSIVE rstrip(_)
rstrip(str) ==
    IF str # <<>> /\ str[Len(str)] \in Whitespace
    THEN rstrip(SubSeq(str, 1, Len(str) - 1)) ELSE str

strip(str) == rstrip(lstrip(str))

\* str.replace(ch, "")
remove(str, ch) == SelectSeq(str, LAMBDA c : c # ch)

startswith(str, prefix) ==
    Len(str) >= Len(prefix) /\ SubSeq(str, 1, Len(prefix)) = prefix

\* .strip().replace(" ", "").replace("-", ""), then without a leading "+",
\* with "254" for a leading "0", and with "254" in front of anything that
\* does not start with it
format_phone(phone) ==
    LET stripped == remove(remove(strip(phone), 32), 45)
        no_plus == IF startswith(stripped, <<43>>) THEN Tail(stripped) ELSE stripped
        no_trunk == IF startswith(no_plus, <<48>>)
                    THEN <<50, 53, 52>> \o Tail(no_plus) ELSE no_plus
    IN IF ~startswith(no_trunk, <<50, 53, 52>>)
       THEN <<50, 53, 52>> \o no_trunk ELSE no_trunk

\* A callback body: bytes that are not JSON (shape "malformed": an empty or
\* truncated body sent as application/json), JSON that is no object or whose
\* Body is none (shape "none": null, a list, {"Body": null}), an object
\* without the keys of the envelope (shape "object": {}, {"Body": {}}), or
\* the envelope Body.stkCallback with CheckoutRequestID (None when the key is
\* missing), ResultCode, ResultDesc ("" when missing) and the metadata:
\*   "absent"        no CallbackMetadata key, or an object without Item:
\*                   .get('CallbackMetadata', {}).get('Item', []) is []
\*   "no_object"     CallbackMetadata is null, a list, a string or a number:
\*                   it has no .get
\*   "not_iterable"  Item is null, a number or a boolean
\*   "items"         Item is a list, an object or a string; items is what
\*                   the loop over it yields: the entries of the list, the
\*                   keys of the object, the characters of the string, none
\*                   for [], {} and ""
\* An entry the loop yields is an object with Name and Value, or no object
\* (a key, a character, a number, null), which has no .get.
Envelope(cid, code, desc, metadata, items) ==
    [shape |-> "envelope", cid |-> cid, code |-> code, desc |-> desc,
     metadata |-> metadata, items |-> items]

Item(name, value) == [object |-> TRUE, Name |-> name, Value |-> value]

NotObject == [object |-> FALSE, Name |-> None, Value |-> None]

\* a body with the MpesaReceiptNumber item, when there is a receipt, as its
\* only metadata
Payload(shape, cid, code, desc, receipt) ==
    [Envelope(cid, code, desc, "items",
              IF receipt = None THEN <<>> ELSE <<Item("MpesaReceiptNumber", receipt)>>)
        EXCEPT !.shape = shape]

ResultCodes == {0, 1032}

\* the value the loop over the items leaves under a name: that of the last
\* item with the name, None when there is none
ItemValue(items, name) ==
    LET found == {i \in 1..Len(items) : items[i].Name = name}
    IN IF found = {} THEN None
       ELSE items[CHOOSE i \in found : \A j \in found : j <= i].Value

ItemString(items, name) ==
    IF \E i \in 1..Len(items) : items[i].Name = name
    THEN Str(ItemValue(items, name)) ELSE None

\* what the except branch returns: no checkout_request_id, no
\* result_description, no metadata
parse_error ==
    [success |-> FALSE, parsed |-> FALSE, checkout_request_id |-> None,
     result_description |-> "", amount |-> None, receipt_number |-> None,
     transaction_date |-> None, phone_number |-> None]

\* what the try block returns for an object without the keys of the
\* envelope: every .get() gives None, and a ResultCode of None is not 0
parse_empty ==
    [success |-> FALSE, parsed |-> TRUE, checkout_request_id |-> None,
     result_description |-> "", amount |-> None, receipt_number |-> None,
     transaction_date |-> None, phone_number |-> None]

\* MpesaService.parse_callback: 'success' is ResultCode == 0, and only then
\* is the metadata read.  Any exception ends in the except branch: a body
\* that is no object; on ResultCode 0, metadata without .get
\* (AttributeError), an Item that cannot be iterated (TypeError), an entry
\* without .get (AttributeError).  A key the result does not have reads as
\* None (result.get).
parse_callback(callback_data) ==
    IF callback_data.shape = "object" THEN parse_empty
    ELSE IF callback_data.shape # "envelope" THEN parse_error
    ELSE IF callback_data.code # 0
    THEN [success |-> FALSE, parsed |-> TRUE,
          checkout_request_id |-> callback_data.cid,
          result_description |-> callback_data.desc,
          amount |-> None, receipt_number |-> None,
          transaction_date |-> None, phone_number |-> None]
    ELSE IF callback_data.metadata \in {"no_object", "not_iterable"} THEN parse_error
    ELSE LET items == IF callback_data.metadata = "items" THEN callback_data.items ELSE <<>>
         IN IF \E i \in 1..Len(items) : ~items[i].object THEN parse_error
            ELSE [success |-> TRUE, parsed |-> TRUE,
                  checkout_request_id |-> callback_data.cid,
                  result_description |-> callback_data.desc,
                  amount |-> ItemValue(items, "Amount"),
                  receipt_number |-> ItemValue(items, "MpesaReceiptNumber"),
                  transaction_date |-> ItemString(items, "TransactionDate"),
                  phone_number |-> ItemString(items, "PhoneNumber")]

\* Payment.query.filter_by(checkout_request_id=c): c = None compiles to
\* "checkout_request_id IS NULL"
payments_by_checkout(c) == {o \in DOMAIN payments : payments[o].checkout_request_id = c}

Tick == clock < MaxClock /\ clock' = clock + 1

\* ------------------------------------------------------- payment routes
\* POST /api/payments/callback.  request.get_json() (line 127) raises
\* BadRequest for a body that is not JSON: the framework answers 400 and the
\* handler body is not run.  get_mpesa_service() (line 135) raises ValueError
\* when an MPESA_* variable is not set (configured is FALSE): 500 before the
\* body is parsed.  result.get('result_description', 'Payment failed') gives
\* the default only when the result has no such key, which is the result of
\* the except branch.
mpesa_callback(callback_data, configured) ==
    LET result == parse_callback(callback_data)
        checkout_id == result.checkout_request_id
        reason == IF result.parsed THEN result.result_description ELSE "Payment failed"
    IN /\ IF callback_data.shape = "malformed"
          THEN /\ resp' = ReplyErr("mpesa_callback", 400, "BadRequest")
               /\ UNCHANGED <<payments, clock>>
          ELSE IF ~configured
          THEN /\ resp' = ReplyErr("mpesa_callback", 500, "ValueError")
               /\ UNCHANGED <<payments, clock>>
          ELSE IF payments_by_checkout(checkout_id) = {}
          THEN /\ resp' = Reply("mpesa_callback", 200)
               /\ UNCHANGED <<payments, clock>>
          ELSE \E o \in payments_by_checkout(checkout_id) :    \* .first(), no ORDER BY
                 /\ Tick
                 /\ payments' = [payments EXCEPT ![o] =
                        IF result.success
                        THEN mark_as_paid(@, result.receipt_number, now)
                        ELSE mark_as_failed(@, reason, now)]
                 /\ resp' = Reply("mpesa_callback", 200)
       /\ UNCHANGED <<orders, tracking, notifications, inflight, call>>

\* POST /api/payments/simulate-callback.  data is the JSON body: for the body
\* null, request.get_json() returns None and data.get (line 381) raises
\* AttributeError outside any try block: 500.
simulate_callback(data, checkout_id, status, receipt) ==
    /\ IF data = "null"
       THEN /\ resp' = ReplyErr("simulate_callback", 500, "AttributeError")
            /\ UNCHANGED <<payments, clock>>
       ELSE IF checkout_id = None
       THEN /\ resp' = Reply("simulate_callback", 400)
            /\ UNCHANGED <<payments, clock>>
       ELSE IF payments_by_checkout(checkout_id) = {}
       THEN /\ resp' = Reply("simulate_callback", 404)
            /\ UNCHANGED <<payments, clock>>
       ELSE \E o \in payments_by_checkout(checkout_id) :
              /\ Tick
              /\ payments' = [payments EXCEPT ![o] =
                     IF status = "success"
                     THEN mark_as_paid(@, receipt, now)
                     ELSE mark_as_failed(@, "Simulated Failure", now)]
              /\ resp' = Reply("simulate_callback", 200)
    /\ UNCHANGED <<orders, tracking, notifications, inflight, call>>

\* the existing payment row as the first commit of an initiation stores it
start_processing(payment, phone_number) ==
    [payment EXCEPT !.payment_status = "PROCESSING", !.customer_phone = phone_number]

\* The result the try block of an initiation (lines 74-86, 324-334) leaves.
\* get_mpesa_service() raises ValueError when an MPESA_* variable is not set
\* (configured is FALSE).  Otherwise the arguments of initiate_stk_push are
\* evaluated: db.session.commit() expired `order` and db.session.remove()
\* detached it, so int(order.total_price) raises DetachedInstanceError before
\* the call is made.  The except branch turns the exception into the result,
\* error being its text.  The gateway is never called and no
\* CheckoutRequestID is ever received.
stk_push_result(configured) ==
    [success |-> FALSE, cid |-> None,
     error |-> IF configured THEN "DetachedInstanceError" ELSE "ValueError"]

\* POST /api/payments/initiate, up to the first commit, db.session.remove()
\* and the try block (lines 30-86); payment_id is read before the session is
\* removed
initiate_payment(o, phone_number, configured) ==
    /\ IF phone_number = None
       THEN /\ resp' = Reply("initiate_payment", 400)
            /\ UNCHANGED <<payments, inflight>>
       ELSE IF o \notin DOMAIN orders
       THEN /\ resp' = Reply("initiate_payment", 404)
            /\ UNCHANGED <<payments, inflight>>
       ELSE IF is_paid(payments[o])
       THEN /\ resp' = ReplyErr("initiate_payment", 400, "Order already paid")
            /\ UNCHANGED <<payments, inflight>>
       ELSE /\ Cardinality(inflight) < MaxReq
            /\ payments' = [payments EXCEPT ![o] = start_processing(@, phone_number)]
            /\ inflight' = inflight \cup
                   {[kind |-> "initiate", order |-> o,
                     success |-> stk_push_result(configured).success,
                     cid |-> stk_push_result(configured).cid,
                     error |-> stk_push_result(configured).error]}
            /\ UNCHANGED resp
    /\ UNCHANGED <<orders, tracking, notifications, clock, call>>

\* the second transaction of POST /api/payments/initiate (lines 88-116): the
\* payment is fetched again by payment_id and written according to the result
initiate_finish(r) ==
    /\ r \in inflight /\ r.kind = "initiate"
    /\ inflight' = inflight \ {r}
    /\ IF r.success
       THEN /\ payments' = [payments EXCEPT ![r.order].checkout_request_id = r.cid]
            /\ resp' = Reply("initiate_payment", 200)
            /\ UNCHANGED clock
       ELSE /\ Tick
            /\ payments' = [payments EXCEPT ![r.order] = mark_as_failed(@, r.error, now)]
            /\ resp' = ReplyErr("initiate_payment", 400, r.error)   \* success: False
    /\ UNCHANGED <<orders, tracking, notifications, call>>

\* POST /api/payments/orders/<id>/pay.  The handler commits PROCESSING and
\* the phone number and removes the session as the other initiation does, but
\* it re-fetches with Payment.query.get(payment.id) (line 337): payment is
\* expired and detached by then, reading payment.id raises
\* DetachedInstanceError outside any try block, and the request ends in 500
\* with the first commit in place.  Lines 338-363 are never executed.
pay_for_order(o, phone_number) ==
    /\ IF phone_number = None
       THEN /\ resp' = Reply("pay_for_order", 400)
            /\ UNCHANGED payments
       ELSE IF o \notin DOMAIN orders
       THEN /\ resp' = Reply("pay_for_order", 404)
            /\ UNCHANGED payments
       ELSE IF is_paid(payments[o])
       THEN /\ resp' = ReplyErr("pay_for_order", 400, "Order already paid")
            /\ UNCHANGED payments
       ELSE /\ payments' = [payments EXCEPT ![o] = start_processing(@, phone_number)]
            /\ resp' = ReplyErr("pay_for_order", 500, "DetachedInstanceError")
    /\ UNCHANGED <<orders, tracking, notifications, inflight, clock, call>>

\* What the route has in `result` after lines 224-229: the answer of
\* query_stk_status with the status of status_map or "unknown"
\* (payment_service.py 244-260); its answer without a token (206-211) or
\* when the POST raises a RequestException (262-267), a dict without the
\* key "status"; or, when get_mpesa_service or query_stk_status raises, the
\* dict of the route's except branch with the status "error"
QueryResults ==
    {[success |-> TRUE, status |-> s] :
        s \in {"completed", "failed", "cancelled", "timeout", "unknown"}}
    \cup {[success |-> FALSE, status |-> "error"], [success |-> FALSE]}

\* GET /api/payments/query/<checkout_request_id>, up to db.session.remove();
\* the id is a segment of the path, never None
query_mpesa_status(checkout_request_id) ==
    /\ checkout_request_id # None
    /\ IF payments_by_checkout(checkout_request_id) = {}
       THEN /\ resp' = Reply("query_mpesa_status", 404)
            /\ UNCHANGED inflight
       ELSE \E o \in payments_by_checkout(checkout_request_id) :
              IF is_paid(payments[o])
              THEN /\ resp' = Reply("query_mpesa_status", 200)
                   /\ UNCHANGED inflight
              ELSE /\ Cardinality(inflight) < MaxReq
                   /\ inflight' = inflight \cup
                          {[kind |-> "poll", order |-> o, success |-> FALSE,
                            cid |-> checkout_request_id, error |-> ""]}
                   /\ UNCHANGED resp
    /\ UNCHANGED <<orders, payments, tracking, notifications, clock, call>>

\* `result` is there; the payment is fetched again by id and written when
\* result.get('status') is "completed" (lines 231-245): a result without
\* the key gives None and writes nothing.  A poll is in flight only for a
\* Payment found by a stored checkout id.
query_finish(r, result) ==
    /\ r \in inflight /\ r.kind = "poll"
    /\ inflight' = inflight \ {r}
    /\ IF "status" \in DOMAIN result /\ result.status = "completed"
       THEN /\ Tick
            /\ payments' = [payments EXCEPT ![r.order].payment_status = "PAID",
                                            ![r.order].paid_at = now]
       ELSE UNCHANGED <<payments, clock>>
    /\ resp' = Reply("query_mpesa_status", 200)
    /\ UNCHANGED <<orders, tracking, notifications, call>>

\* ------------------------------------------- direct model-layer calls
\* order.update_status(new_status, courier_id); db.session.commit()
call_update_status(o, new_status, courier_id) ==
    /\ o \in DOMAIN orders
    /\ IF ~update_status_ok(orders[o], new_status)
       THEN /\ resp' = ReplyErr("update_status", 0, "ValueError")
            /\ UNCHANGED <<orders, clock>>
       ELSE /\ IF new_status = "DELIVERED" THEN Tick ELSE UNCHANGED clock
            /\ orders' = [orders EXCEPT ![o] = update_status(@, new_status, courier_id, now)]
            /\ resp' = Reply("update_status", 0)
    /\ UNCHANGED <<payments, tracking, notifications, inflight, call>>

\* payment.initiate_refund(reason); db.session.commit()
call_initiate_refund(o, reason) ==
    /\ o \in DOMAIN payments
    /\ IF ~can_refund(payments[o])
       THEN /\ resp' = ReplyErr("initiate_refund", 0, "ValueError")
            /\ UNCHANGED <<payments, clock>>
       ELSE /\ Tick
            /\ payments' = [payments EXCEPT ![o] = initiate_refund(@, reason, now)]
            /\ resp' = Reply("initiate_refund", 0)
    /\ UNCHANGED <<orders, tracking, notifications, inflight, call>>

\* ---------------------------------------------------------- specifications
Couriers == {u \in Users : role(u) = "courier"}

Customers == {u \in Users : role(u) = "customer"}

CheckoutIds == 1..MaxCid

\* callback bodies: not JSON; null; {}; a success with or without a receipt
\* item; a success whose CallbackMetadata is null; a failure with or without
\* ResultDesc; each with or without a checkout id
CallbackPayloads ==
    {Payload("malformed", None, 0, "", None), Payload("none", None, 0, "", None),
     Payload("object", None, 0, "", None)} \cup
    {Payload("envelope", c, 0, "desc", rc) : c \in {None} \cup CheckoutIds, rc \in Receipts} \cup
    {Envelope(c, 0, "desc", "no_object", <<>>) : c \in {None} \cup CheckoutIds} \cup
    {Payload("envelope", c, 1032, desc, None) : c \in {None} \cup CheckoutIds, desc \in {"", "desc"}}

\* a validated creation payload
OrderData(pickup, destination, weight_kg, flags) ==
    [pickup |-> pickup, destination |-> destination, weight_kg |-> weight_kg,
     fragile |-> flags[1], insurance_required |-> flags[2],
     is_express |-> flags[3], is_weekend |-> flags[4]]

\* a small parcel to destination 1, no extras
PlainData == OrderData(3, 1, 3000, <<FALSE, FALSE, FALSE, FALSE>>)

PricingData ==
    {OrderData(p, d, k[1], k[2]) : p \in Pickups, d \in Dests, k \in Parcels}

\* MapsService: no API key, Google answers, Google raises or answers not OK
GoogleModes == {"none", "ok", "fail"}

\* what happens to a request that writes: the validator's verdict and
\* whether the database accepts the commit (a rejected payload never gets
\* as far as the database)
Outcomes == {<<FALSE, TRUE>>, <<TRUE, FALSE>>, <<TRUE, TRUE>>}

\* ---------------------------------------------------------- view functions
\* The view functions called directly, one call after another on one
\* database.  create_order and cancel_order: any authenticated user may
\* create an order; `creators` are those who do
OrderViews(creators) ==
    \/ \E u \in creators, out \in Outcomes :
          create_order(u, PlainData, "none", out[1], out[2])
    \/ \E o \in OrderIds, u \in Users, ok \in BOOLEAN : cancel_order(o, u, ok)

DestinationView(dests) ==
    \E o \in OrderIds, u \in Users, d \in dests, out \in Outcomes :
        update_destination(o, u, d, "none", out[1], out[2])

\* AdminAssignCourierResource.patch and AdminUpdateOrderStatusResource.patch
AdminResources ==
    \/ \E o \in OrderIds, c \in Couriers, u \in Users : AdminAssignCourier(o, c, u)
    \/ \E o \in OrderIds, s \in StatusStrings, u \in Users : AdminUpdateOrderStatus(o, s, u)

\* update_order_status and update_location of courier_routes.py
CourierViews ==
    \/ \E o \in OrderIds, s \in StatusStrings, u \in Users : update_order_status(o, s, u)
    \/ \E o \in OrderIds, u \in Users, pt \in Pings, v \in BOOLEAN :
          update_location(o, u, pt, v)

\* the bodies of a simulated callback: JSON null, or an object
SimulateBodies == {"null", "object"}

\* the view functions of payment_routes.py.  query_finish is no part of
\* them: a poll is in flight only after query_mpesa_status found a Payment
\* by its checkout id, and no handler stores one
PaymentViews ==
    \/ \E d \in CallbackPayloads, cfg \in BOOLEAN : mpesa_callback(d, cfg)
    \/ \E b \in SimulateBodies, c \in {None} \cup CheckoutIds, st \in {"success", "failed"} :
          simulate_callback(b, c, st, 1)
    \/ \E o \in OrderIds, ph \in {None} \cup Phones, cfg \in BOOLEAN :
          initiate_payment(o, ph, cfg)
    \/ \E r \in inflight : initiate_finish(r)
    \/ \E o \in OrderIds, ph \in {None} \cup Phones : pay_for_order(o, ph)
    \/ \E c \in CheckoutIds : query_mpesa_status(c)

\* -------------------------------------------------------- the application
\* The names that the start-up reads and no module binds: os (app/__init__.py
\* line 30; the module imports Flask, Migrate, Mail, CORS, Config, db, jwt
\* and load_dotenv only), the five Courier...Resource classes that line 77
\* imports from courier_routes.py (which defines the blueprint courier_bp and
\* no class), and Notification, which order_routes.py line 10 imports from
\* app.models (whose __init__.py exports User, DeliveryOrder, OrderStatus,
\* WeightCategory, Payment and OrderTracking)
StartupNames == {"os", "CourierResources", "Notification"}

\* those of them that are bound in the repository: none
BoundNames == {}

\* create_app, given the names that are bound: the exception it raises and
\* the line that raises it, and the resources and blueprints registered by
\* then.  courier_bp is registered on no path.
create_app(names) ==
    IF "os" \notin names
    THEN [raises |-> "NameError", line |-> 30, registered |-> {}]
    ELSE IF "CourierResources" \notin names
    THEN [raises |-> "ImportError", line |-> 77,
          registered |-> {"auth", "admin"}]
    ELSE IF "Notification" \notin names
    THEN [raises |-> "ImportError", line |-> 92,
          registered |-> {"auth", "admin", "courier_resources"}]
    ELSE [raises |-> "none", line |-> 98,
          registered |-> {"auth", "admin", "courier_resources",
                          "orders_bp", "payments_bp"}]

\* run.py and app.py: app = create_app()
app == create_app(BoundNames)

\* a request to a route is answered by its view function only if create_app
\* returned and had registered the route
Served(route) == app.raises = "none" /\ route \in app.registered

OrderRoutes(creators) == Served("orders_bp") /\ OrderViews(creators)

DestinationRoute(dests) == Served("orders_bp") /\ DestinationView(dests)

StaffRoutes ==
    \/ Served("admin") /\ AdminResources
    \/ Served("courier_bp") /\ CourierViews

PaymentRoutes == Served("payments_bp") /\ PaymentViews

\* the application: no route is served, so no request changes anything
Next == OrderRoutes(Users) \/ DestinationRoute(Dests) \/ StaffRoutes \/ PaymentRoutes

Spec == Init /\ [][Next]_vars

\* ------------------------------------- the view functions, called directly
NextLifecycle ==
    \/ OrderViews(Customers)
    \/ DestinationView({2})
    \/ AdminResources
    \/ CourierViews
    \/ \E o \in OrderIds, s \in OrderStatus, c \in {None} \cup Couriers :
          call_update_status(o, s, c)

SpecLifecycle == Init /\ [][NextLifecycle]_vars

NextPay ==
    \/ OrderViews(Customers)
    \/ PaymentViews
    \/ \E o \in OrderIds, rs \in {"", "reason"} : call_initiate_refund(o, rs)

SpecPay == Init /\ [][NextPay]_vars

\* Creation and destination update with every kind of payload and every
\* behaviour of the distance provider
NextPricing ==
    \/ \E u \in Users, data \in PricingData, g \in GoogleModes, out \in Outcomes :
          create_order(u, data, g, out[1], out[2])
    \/ \E o \in OrderIds, u \in Users, d \in Dests, g \in GoogleModes, out \in Outcomes :
          update_destination(o, u, d, g, out[1], out[2])

SpecPricing == Init /\ [][NextPricing]_vars

\* Creation, destination update and payment: every kind of parcel, every
\* behaviour of the distance provider on an update, initiations by both
\* view functions with their follow-up writes, and callbacks
NextAmount ==
    \/ \E u \in Customers, data \in PricingData, out \in Outcomes :
          create_order(u, data, "none", out[1], out[2])
    \/ \E o \in OrderIds, u \in Customers, d \in Dests, g \in GoogleModes, out \in Outcomes :
          update_destination(o, u, d, g, out[1], out[2])
    \/ \E o \in OrderIds, ph \in Phones, cfg \in BOOLEAN : initiate_payment(o, ph, cfg)
    \/ \E r \in inflight : initiate_finish(r)
    \/ \E o \in OrderIds, ph \in Phones : pay_for_order(o, ph)
    \/ \E d \in CallbackPayloads : mpesa_callback(d, TRUE)

SpecAmount == Init /\ [][NextAmount]_vars

\* a creation body the validator accepts: pickup at point 3, the destination
\* point, both near Nairobi, addresses of twelve characters, a weight and
\* the four flags
CreateBody(destination, weight_kg, flags) ==
    [pickup |-> 3, pickup_lat |-> Latitude(3), pickup_lng |-> Longitude(3),
     pickup_address |-> 12,
     destination |-> destination, destination_lat |-> Latitude(destination),
     destination_lng |-> Longitude(destination),
     destination_address |-> 12, weight_kg |-> weight_kg,
     fragile |-> flags[1], insurance_required |-> flags[2],
     is_express |-> flags[3], is_weekend |-> flags[4]]

\* weights at and next to the limits of the validator and the category
\* bands: 0.1 kg, 4.999 kg, 5 kg, 19.999 kg, 200 kg
EdgeWeights == {MIN_WEIGHT, 4999, 5000, 19999, MAX_WEIGHT}

GoodCreateBodies ==
    {CreateBody(d, k[1], k[2]) : d \in Dests, k \in Parcels} \cup
    {CreateBody(d, w, <<FALSE, FALSE, FALSE, FALSE>>) : d \in Dests, w \in EdgeWeights}

\* bodies with one defect: a required key missing, a coordinate out of
\* range or outside Kenya, a weight below or above the limits, an address
\* blank, too short or too long
BadCreateBodies ==
    LET g == CreateBody(1, 3000, <<TRUE, FALSE, FALSE, FALSE>>)
    IN {Without(g, k) : k \in CreateRequired} \cup
       {[g EXCEPT !.pickup_lat = 910000], [g EXCEPT !.pickup_lng = -1810000],
        [g EXCEPT !.destination_lat = -910000], [g EXCEPT !.destination_lng = 1810000],
        [g EXCEPT !.destination_lat = 100000], [g EXCEPT !.pickup_lat = -50000],
        [g EXCEPT !.weight_kg = 0], [g EXCEPT !.weight_kg = MIN_WEIGHT - 1],
        [g EXCEPT !.weight_kg = MAX_WEIGHT + 1],
        [g EXCEPT !.pickup_address = 0], [g EXCEPT !.destination_address = 2],
        [g EXCEPT !.destination_address = 501]}

CreateBodies == GoodCreateBodies \cup BadCreateBodies

DestinationBody(destination) ==
    [destination |-> destination, destination_lat |-> Latitude(destination),
     destination_lng |-> Longitude(destination), destination_address |-> 12]

BadDestinationBodies ==
    LET g == DestinationBody(2)
    IN {Without(g, k) : k \in DestinationRequired} \cup
       {[g EXCEPT !.destination_lat = 910000], [g EXCEPT !.destination_lng = -1810000],
        [g EXCEPT !.destination_address = 2]}

DestinationBodies == {DestinationBody(d) : d \in Dests} \cup BadDestinationBodies

\* Creation and destination update with the bodies as they arrive, run
\* through the validators; the distance provider has no API key
NextValidate ==
    \/ \E u \in Users, data \in CreateBodies, ok \in BOOLEAN :
          post_order(u, data, "none", ok)
    \/ \E o \in OrderIds, u \in Users, data \in DestinationBodies, ok \in BOOLEAN :
          patch_destination(o, u, data, "none", ok)

SpecValidate == Init /\ [][NextValidate]_vars

\* MapsService.calculate_distance called with every origin (None: no
\* coordinates, an address only), destination and behaviour of the provider
ProviderModes == {"none", "ok", "raises", "not_ok", "malformed"}

DistanceCalls ==
    {Call("calculate_distance", <<o, d, g>>) :
        o \in {None, 3, 4}, d \in {None, 1, 2, 5}, g \in ProviderModes}

\* the state before any request, with a service call about to be made
InitCalls(calls) ==
    /\ orders = <<>> /\ payments = <<>> /\ tracking = <<>> /\ notifications = <<>>
    /\ inflight = {} /\ clock = 0 /\ resp = Reply("none", 0)
    /\ call \in calls

distance_returns ==
    /\ call.fn = "calculate_distance" /\ ~call.done
    /\ Return(calculate_distance(call.args[1], call.args[2], call.args[3]))
    /\ UNCHANGED <<orders, payments, tracking, notifications, inflight, clock, resp>>

SpecDistance == InitCalls(DistanceCalls) /\ [][distance_returns]_vars

\* PricingService.calculate_price_breakdown called with distances from 0 to
\* MaxPriceSteps * 0.04 km, with 0.5 km, 10.04 km, 10.1 km, 12.5 km and 100
\* km, for a 3 kg parcel and every combination of the four flags
MaxPriceSteps == 5

PriceDistances == {4 * k : k \in 0..MaxPriceSteps} \cup {50, 1004, 1010, 1250, 10000}

PriceCalls ==
    {Call("calculate_price_breakdown", <<d, 3000, f1, f2, f3, f4>>) :
        d \in PriceDistances, f1 \in BOOLEAN, f2 \in BOOLEAN, f3 \in BOOLEAN, f4 \in BOOLEAN}

price_returns ==
    /\ call.fn = "calculate_price_breakdown" /\ ~call.done
    /\ Return(calculate_price_breakdown(call.args[1], call.args[2], call.args[3],
                                        call.args[4], call.args[5], call.args[6]))
    /\ UNCHANGED <<orders, payments, tracking, notifications, inflight, clock, resp>>

SpecPrice == InitCalls(PriceCalls) /\ [][price_returns]_vars

\* PricingService.calculate_estimated_delivery_time called with distances
\* from 0 km in steps of 25 km (1000 km at step 40), with distances around
\* the point where the minimum of 30 minutes ends (10 km, 15 km) and where
\* the maximum of 480 minutes begins (310 km, 465 km), express and not
MaxEtaSteps == 40

EtaDistances ==
    {2500 * k : k \in 0..MaxEtaSteps} \cup
    {999, 1000, 1067, 1500, 1501, 1600, 30999, 31000, 46499, 46500}

EtaCalls ==
    {Call("calculate_estimated_delivery_time", <<d, e>>) :
        d \in EtaDistances, e \in BOOLEAN}

eta_returns ==
    /\ call.fn = "calculate_estimated_delivery_time" /\ ~call.done
    /\ Return(calculate_estimated_delivery_time(call.args[1], call.args[2]))
    /\ UNCHANGED <<orders, payments, tracking, notifications, inflight, clock, resp>>

SpecEta == InitCalls(EtaCalls) /\ [][eta_returns]_vars

\* MpesaService._format_phone called with every string of up to
\* MaxPhoneLen characters out of the digits 0, 2, 4, 5 and 7, "+", "-", the
\* space, the tab, the line feed and the no-break space
MaxPhoneLen == 3

PhoneChars == {48, 50, 52, 53, 55, 43, 45, 32, 9, 10, 160}

PhoneStrings == UNION {[1..n -> PhoneChars] : n \in 0..MaxPhoneLen}

PhoneCalls == {Call("_format_phone", <<phone>>) : phone \in PhoneStrings}

phone_returns ==
    /\ call.fn = "_format_phone" /\ ~call.done
    /\ Return(format_phone(call.args[1]))
    /\ UNCHANGED <<orders, payments, tracking, notifications, inflight, clock, resp>>

SpecPhone == InitCalls(PhoneCalls) /\ [][phone_returns]_vars

\* MpesaService.parse_callback called with JSON that is no envelope and with
\* envelopes: every checkout id (or none), a success and two failure codes,
\* with and without ResultDesc, and every kind of metadata
FullItems ==
    <<Item("Amount", 1355), Item("MpesaReceiptNumber", 1),
      Item("TransactionDate", 20261029), Item("PhoneNumber", 254712)>>

\* what the loop yields: nothing (Item is [], {} or ""), the four items,
\* the receipt alone, an unknown name and a name twice, an entry that is no
\* object after an item (a list with a string in it), nothing but entries
\* that are no objects (the keys of an object, the characters of a string)
MetadataItems ==
    {<<>>, FullItems, <<Item("MpesaReceiptNumber", 1)>>,
     <<Item("Balance", 7), Item("Amount", 1355), Item("Amount", 1400)>>,
     <<Item("Amount", 1355), NotObject>>, <<NotObject, NotObject>>}

CallbackBodies ==
    {Payload("none", None, 0, "", None), Payload("object", None, 0, "", None)} \cup
    {Envelope(c, code, desc, "items", items) :
        c \in {None} \cup CheckoutIds, code \in ResultCodes \cup {1},
        desc \in {"", "desc"}, items \in MetadataItems} \cup
    {Envelope(c, code, desc, md, <<>>) :
        c \in {None} \cup CheckoutIds, code \in ResultCodes \cup {1},
        desc \in {"", "desc"}, md \in {"absent", "no_object", "not_iterable"}}

ParseCalls == {Call("parse_callback", <<body>>) : body \in CallbackBodies}

parse_returns ==
    /\ call.fn = "parse_callback" /\ ~call.done
    /\ Return(parse_callback(call.args[1]))
    /\ UNCHANGED <<orders, payments, tracking, notifications, inflight, clock, resp>>

SpecCallback == InitCalls(ParseCalls) /\ [][parse_returns]_vars

\* The view functions of the order lifecycle alone, called directly.  The
\* callers keep calling: create_order for a customer, the assignment and the
\* status override for the admin, each status update for the courier.
\* Nobody is obliged to cancel.
NextDeliver ==
    \/ OrderViews(Users)
    \/ \E u \in Users, k \in Parcels :
          create_order(u, OrderData(3, 2, k[1], k[2]), "none", TRUE, TRUE)
    \/ DestinationView(Dests)
    \/ AdminResources
    \/ CourierViews

AdminAsks ==
    \E o \in OrderIds, c \in Couriers, u \in Users :
        role(u) = "admin" /\ AdminAssignCourier(o, c, u)

AdminOverrides ==
    \E o \in OrderIds, s \in OrderStatus, u \in Users :
        role(u) = "admin" /\ AdminUpdateOrderStatus(o, s, u)

CourierAsks ==
    \E o \in OrderIds, s \in valid_courier_statuses, u \in Couriers :
        update_order_status(o, s, u)

SpecDeliver ==
    /\ Init
    /\ [][NextDeliver]_vars
    /\ WF_vars(\E u \in Users : create_order(u, PlainData, "none", TRUE, TRUE))
    /\ WF_vars(AdminAsks)
    /\ WF_vars(AdminOverrides)
    /\ WF_vars(CourierAsks)

\* ------------------------------------------------------------------ claims
\* the order transitions the specification calls canonical
CanonicalTransitions ==
    {<<"PENDING", "ASSIGNED">>, <<"PENDING", "CANCELLED">>,
     <<"ASSIGNED", "PICKED_UP">>, <<"ASSIGNED", "CANCELLED">>,
     <<"PICKED_UP", "IN_TRANSIT">>, <<"PICKED_UP", "CANCELLED">>,
     <<"IN_TRANSIT", "DELIVERED">>}

\* C1: every committed change of an order's status is a canonical transition
\* (PENDING->ASSIGNED, PENDING->CANCELLED, ASSIGNED->PICKED_UP,
\* ASSIGNED->CANCELLED, PICKED_UP->IN_TRANSIT, PICKED_UP->CANCELLED,
\* IN_TRANSIT->DELIVERED); any other requested transition leaves the status
\* as it was.
C1_CanonicalTransitionsOnly ==
    [][\A o \in DOMAIN orders :
          orders'[o].status # orders[o].status
              => <<orders[o].status, orders'[o].status>> \in CanonicalTransitions]_vars

\* a step that applies a FAILED gateway result: a failure callback, a
\* simulated failure, or the follow-up of an initiation whose call failed
FailedResultStep ==
    \/ \E d \in CallbackPayloads : ~parse_callback(d).success /\ mpesa_callback(d, TRUE)
    \/ \E c \in CheckoutIds : simulate_callback("object", c, "failed", 1)
    \/ \E r \in inflight : ~r.success /\ initiate_finish(r)

\* C2: a FAILED gateway result applied to a Payment whose status is PAID is
\* ignored: status, paid_at, failed_at and failure_reason keep their values.
C2_FailedResultOnPaidIgnored ==
    [][FailedResultStep =>
          \A o \in DOMAIN payments :
              is_paid(payments[o]) =>
                  /\ payments'[o].payment_status = payments[o].payment_status
                  /\ payments'[o].paid_at = payments[o].paid_at
                  /\ payments'[o].failed_at = payments[o].failed_at
                  /\ payments'[o].failure_reason = payments[o].failure_reason]_vars

\* C3: a success result delivered again to the Payment it has already made
\* PAID (same checkout id, same receipt) changes nothing: status, paid_at and
\* receipt number after the second delivery are those after the first.
C3_SuccessTwiceIdempotent ==
    [][\A d \in CallbackPayloads, o \in DOMAIN payments :
          (/\ parse_callback(d).success
           /\ o \in payments_by_checkout(parse_callback(d).checkout_request_id)
           /\ is_paid(payments[o])
           /\ payments[o].mpesa_receipt_number = parse_callback(d).receipt_number
           /\ mpesa_callback(d, TRUE))
          => /\ payments'[o].payment_status = payments[o].payment_status
             /\ payments'[o].paid_at = payments[o].paid_at
             /\ payments'[o].mpesa_receipt_number = payments[o].mpesa_receipt_number]_vars

\* the edges of the payment status graph of the specification
PaymentEdges ==
    {<<"PENDING", "PROCESSING">>, <<"PROCESSING", "PAID">>,
     <<"PROCESSING", "FAILED">>, <<"PAID", "REFUNDED">>,
     <<"PENDING", "CANCELLED">>, <<"PROCESSING", "CANCELLED">>}

\* C4: every change of a Payment's status is an edge of the graph
\* PENDING->PROCESSING, PROCESSING->PAID, PROCESSING->FAILED, PAID->REFUNDED,
\* PENDING->CANCELLED, PROCESSING->CANCELLED.
C4_PaymentEdgesOnly ==
    [][\A o \in DOMAIN payments :
          payments'[o].payment_status # payments[o].payment_status
              => <<payments[o].payment_status, payments'[o].payment_status>>
                     \in PaymentEdges]_vars

\* a step of the callback handler or of the status poll
CallbackOrPollStep ==
    \/ \E d \in CallbackPayloads : mpesa_callback(d, TRUE)
    \/ \E c \in CheckoutIds : query_mpesa_status(c)

\* C5: however the callback handler and the status poll interleave on one
\* Payment, once one of them has applied a success (the Payment is PAID) no
\* later callback or poll result takes the Payment out of PAID.
C5_SuccessSurvivesInterleaving ==
    [][CallbackOrPollStep =>
          \A o \in DOMAIN payments :
              is_paid(payments[o]) => is_paid(payments'[o])]_vars

\* checkout id c is stored on no Payment while an initiation is between its
\* two commits
NotYetStored(c) ==
    /\ c # None
    /\ payments_by_checkout(c) = {}
    /\ \E r \in inflight : r.kind = "initiate"

\* C6: a success result whose checkout id is not yet stored on any Payment is
\* not lost: the step that receives it records something (it is buffered) or
\* answers the gateway with an error (it will be delivered again).
C6_UnmatchedSuccessNotLost ==
    [][\A d \in CallbackPayloads :
          (/\ parse_callback(d).success
           /\ NotYetStored(parse_callback(d).checkout_request_id)
           /\ mpesa_callback(d, TRUE))
          => \/ <<payments, inflight>>' # <<payments, inflight>>
             \/ resp'.code # 200]_vars

\* C7: once an order is DELIVERED or CANCELLED no operation (courier update,
\* admin override, admin assignment, cancel, destination update, location
\* ping, a direct update_status) changes its status again.
C7_TerminalStatusIsFinal ==
    [][\A o \in DOMAIN orders :
          orders[o].status \in {"DELIVERED", "CANCELLED"}
              => orders'[o].status = orders[o].status]_vars

\* a delivered order on which the admin override has been tried and refused
C7_Witness ==
    /\ resp = ReplyErr("admin_update_status", 500, "ValueError")
    /\ \E o \in DOMAIN orders : orders[o].status = "DELIVERED"

\* C8: cancel (its commit going through) succeeds exactly when the order is
\* PENDING, ASSIGNED or PICKED_UP, and then commits CANCELLED; when the order is IN_TRANSIT,
\* DELIVERED or CANCELLED it answers 400 and leaves the order, its payment
\* and its tracking rows unchanged.
C8_CancelExactlyWhenCancellable ==
    [][\A o \in DOMAIN orders, u \in Users :
          (resp'.op = "cancel_order" /\ cancel_order(o, u, TRUE)) =>
              IF orders[o].status \in {"PENDING", "ASSIGNED", "PICKED_UP"}
              THEN resp'.code = 200 /\ orders'[o].status = "CANCELLED"
              ELSE resp'.code = 400 /\ UNCHANGED <<orders, payments, tracking>>]_vars

\* a cancel request refused on an order that is on its way
C8_Witness ==
    /\ resp = Reply("cancel_order", 400)
    /\ \E o \in DOMAIN orders : orders[o].status = "IN_TRANSIT"

\* C9: from a new PENDING order, the admin assigning a courier and the
\* courier reporting PICKED_UP, IN_TRANSIT and DELIVERED bring the order to
\* DELIVERED: an order nobody cancels is eventually delivered when those
\* requests keep being made.
C9_OrderIsDelivered ==
    <>(\E o \in DOMAIN orders : orders[o].status \in {"DELIVERED", "CANCELLED"})

\* what the handlers do instead: no view function takes an order out of
\* PENDING except cancel_order
HandlersNeverAdvance ==
    \A o \in DOMAIN orders :
        /\ orders[o].status \in {"PENDING", "CANCELLED"}
        /\ orders[o].courier_id = None

\* C10: when an order is cancelled its Payment moves to CANCELLED only from
\* PENDING or PROCESSING; a Payment in any other status (PAID, REFUNDED) is
\* not overwritten by the cancellation.
C10_CancelKeepsSettledPayment ==
    [][\A o \in DOMAIN orders, u \in Users :
          (resp'.op = "cancel_order" /\ cancel_order(o, u, TRUE)) =>
              (payments'[o].payment_status # payments[o].payment_status
                  => /\ payments[o].payment_status \in {"PENDING", "PROCESSING"}
                     /\ payments'[o].payment_status = "CANCELLED")]_vars

\* a step of the destination handler, whatever it is asked and however the
\* distance provider and the database behave
update_destination_step(o) ==
    /\ resp'.op = "update_destination"
    /\ \E u \in Users, d \in Dests, g \in GoogleModes, v \in BOOLEAN, ok \in BOOLEAN :
           update_destination(o, u, d, g, v, ok)

\* C11: the destination can be changed only while the order is PENDING; in
\* every other status the destination update is rejected and leaves the
\* destination, the distance, the prices, the estimate and the payment
\* amount unchanged.
C11_DestinationOnlyWhilePending ==
    [][\A o \in DOMAIN orders :
          (orders[o].status # "PENDING" /\ update_destination_step(o)) =>
              /\ resp'.code \in {400, 403}
              /\ orders'[o] = orders[o]
              /\ payments'[o].amount = payments[o].amount]_vars

\* a destination update refused on an order already picked up: the order has
\* the destination of its creation and its one tracking event
C11_Witness ==
    /\ resp = Reply("update_destination", 403)
    /\ \E o \in DOMAIN orders :
           /\ orders[o].status = "PICKED_UP"
           /\ orders[o].destination = 1
           /\ Len(tracking[o]) = 1

\* C12: after any sequence of order creations and destination updates every
\* stored order has total_price = base_price + distance_price + weight_price
\* + extra_charges, orders with fragile, insurance, express or weekend
\* extras included.
C12_TotalIsSumOfParts ==
    \A o \in DOMAIN orders :
        orders[o].total_price =
            orders[o].base_price + orders[o].distance_price
                + orders[o].weight_price + orders[o].extra_charges

\* what DistanceProvider and PricingEngine produce for the order's current
\* pickup, destination, weight and flags when the provider behaves as g
quote_matches(order, g) ==
    LET distance_km == calculate_distance(order.pickup, order.destination, g).distance_km
    IN /\ order.distance_km = distance_km
       /\ order.total_price =
              calculate_price_breakdown(distance_km, order.weight_kg, order.fragile,
                  order.insurance_required, order.is_express, order.is_weekend).total_price
       /\ order.estimated_minutes =
              calculate_estimated_delivery_time(distance_km, order.is_express)

\* C13: after creation and after every successful destination update the
\* stored distance, total_price and estimate are those the distance provider
\* and the pricing engine produce for the order's current pickup,
\* destination, weight and flags: no committed state holds a new destination
\* with the distance, price or estimate of the old one.
C13_QuoteMatchesDestination ==
    \A o \in DOMAIN orders : \E g \in GoogleModes : quote_matches(orders[o], g)

\* an express order to the farther destination was created with the road
\* distance of the provider: 30 km, 45 minutes
C13_Witness ==
    /\ resp = Reply("create_order", 201)
    /\ \E o \in DOMAIN orders :
           /\ orders[o].destination = 2
           /\ orders[o].is_express
           /\ orders[o].distance_km = Road(orders[o].pickup, 2)
           /\ orders[o].estimated_minutes = 45
           /\ quote_matches(orders[o], "ok")

\* C14: a destination update that succeeds (it is answered 200) leaves
\* unchanged the order's status, courier, pickup point, weight and weight
\* category, the four flags (fragile, insurance, express, weekend),
\* base_price, weight_price and the tracking number.  No request is answered
\* 200 (DestinationNeverUpdated below), so no step is one the formula says
\* anything about.
C14_DestinationUpdateFrame ==
    [][\A o \in DOMAIN orders :
          resp' = Reply("update_destination", 200) /\ orders'[o] # orders[o] =>
              /\ orders'[o].status = orders[o].status
              /\ orders'[o].courier_id = orders[o].courier_id
              /\ orders'[o].pickup = orders[o].pickup
              /\ orders'[o].weight_kg = orders[o].weight_kg
              /\ orders'[o].weight_category = orders[o].weight_category
              /\ orders'[o].fragile = orders[o].fragile
              /\ orders'[o].insurance_required = orders[o].insurance_required
              /\ orders'[o].is_express = orders[o].is_express
              /\ orders'[o].is_weekend = orders[o].is_weekend
              /\ orders'[o].base_price = orders[o].base_price
              /\ orders'[o].weight_price = orders[o].weight_price
              /\ orders'[o].tracking_number = orders[o].tracking_number]_vars

\* no request changes the destination of an order: the identity of a token
\* never equals the user_id of an order
DestinationNeverUpdated ==
    [][\A o \in DOMAIN orders :
          /\ orders'[o].destination = orders[o].destination
          /\ resp'.op = "update_destination" =>
                 resp'.code = 403 /\ UNCHANGED db]_vars

\* C15: payment initiation is a two-phase write, by POST
\* /api/payments/initiate and by POST /api/payments/orders/<id>/pay alike.
\* The first step commits the Payment as PROCESSING with the phone number
\* and holds nothing afterwards: the request is between its commits and
\* other requests can write the Payment; the final state (the checkout id,
\* or FAILED) is committed by a later, separate step that writes this
\* Payment only.  A request of pay_for_order runs to its end in one step of
\* the model: at its end the final state is committed.
C15_TwoPhaseInitiation ==
    [][/\ \A o \in DOMAIN orders, ph \in Phones, cfg \in BOOLEAN :
             (initiate_payment(o, ph, cfg) /\ inflight' # inflight) =>
                 /\ payments'[o].payment_status = "PROCESSING"
                 /\ payments'[o].customer_phone = ph
                 /\ payments'[o].checkout_request_id = payments[o].checkout_request_id
                 /\ payments'[o].failed_at = payments[o].failed_at
                 /\ \E r \in inflight' \ inflight : r.kind = "initiate" /\ r.order = o
       /\ \A r \in inflight :
             (r.kind = "initiate" /\ initiate_finish(r)) =>
                 /\ payments'[r.order].payment_status = "FAILED"
                     \/ payments'[r.order].checkout_request_id # None
                 /\ \A o \in DOMAIN payments : o # r.order => payments'[o] = payments[o]
       /\ \A o \in DOMAIN orders, ph \in Phones :
             (pay_for_order(o, ph) /\ ~is_paid(payments[o])) =>
                 /\ payments'[o].customer_phone = ph
                 /\ payments'[o].payment_status = "FAILED"
                     \/ payments'[o].checkout_request_id # None
                 /\ \A p \in DOMAIN payments : p # o => payments'[p] = payments[p]
      ]_vars

\* the follow-up write of an initiation whose gateway call failed
failed_follow_up(r) ==
    r.kind = "initiate" /\ ~r.success /\ initiate_finish(r)

\* C16: when the gateway call of an initiation fails, the committed Payment
\* row is kept and a follow-up write sets FAILED, failed_at and the failure
\* reason; no initiation that has committed PROCESSING ends with the Payment
\* left in PROCESSING.
C16_FailedCallSetsFailedAndReason ==
    [][/\ \A r \in inflight :
             failed_follow_up(r) =>
                 /\ payments'[r.order].payment_status = "FAILED"
                 /\ payments'[r.order].failed_at = clock'
                 /\ payments'[r.order].failure_reason # ""
       /\ \A o \in DOMAIN orders, ph \in Phones :
             (resp'.op = "pay_for_order" /\ pay_for_order(o, ph)) =>
                 payments'[o].payment_status # "PROCESSING"]_vars

\* what holds instead: the follow-up write of POST /api/payments/initiate
\* sets FAILED, failed_at and the text of the exception and keeps the rest
\* of the row; POST /api/payments/orders/<id>/pay has no follow-up write
InitiateFollowUpSetsFailed ==
    [][\A r \in inflight :
          failed_follow_up(r) =>
              /\ payments'[r.order].payment_status = "FAILED"
              /\ payments'[r.order].failed_at = clock'
              /\ payments'[r.order].failure_reason = r.error
              /\ payments'[r.order].amount = payments[r.order].amount
              /\ payments'[r.order].customer_phone = payments[r.order].customer_phone
              /\ payments'[r.order].checkout_request_id =
                     payments[r.order].checkout_request_id
              /\ Len(payments') = Len(payments)]_vars

\* C17: the callback handler always answers the gateway with ResultCode 0,
\* "Accepted" (never an error), whatever the outcome: a matched success, a
\* matched failure, a checkout id that matches no Payment, a malformed or
\* empty payload; when the result matches no Payment, no Payment is modified.
C17_CallbackAlwaysAccepted ==
    [][\A d \in CallbackPayloads, cfg \in BOOLEAN :
          mpesa_callback(d, cfg) =>
              /\ resp' = Reply("mpesa_callback", 200)
              /\ payments_by_checkout(parse_callback(d).checkout_request_id) = {}
                     => payments' = payments]_vars

\* what holds instead: where the gateway is configured every body that is
\* JSON is accepted, and a result that matches no Payment modifies none
JsonCallbackAccepted ==
    [][\A d \in CallbackPayloads :
          (resp'.op = "mpesa_callback" /\ d.shape # "malformed" /\ mpesa_callback(d, TRUE)) =>
              /\ resp' = Reply("mpesa_callback", 200)
              /\ payments_by_checkout(parse_callback(d).checkout_request_id) = {}
                     => payments' = payments]_vars

\* C18: a refund succeeds only when the Payment is PAID and paid_at is set,
\* and then sets REFUNDED, sets refunded_at and records the reason if one is
\* given; in every other state the refund fails with an error and leaves
\* status, refunded_at and refund_reason unchanged.
C18_RefundOnlyWhenPaid ==
    [][\A o \in DOMAIN payments, rs \in {"", "reason"} :
          (resp'.op = "initiate_refund" /\ call_initiate_refund(o, rs)) =>
              IF payments[o].payment_status = "PAID" /\ payments[o].paid_at # None
              THEN /\ resp'.err = ""
                   /\ payments'[o].payment_status = "REFUNDED"
                   /\ payments'[o].refunded_at = clock'
                   /\ payments'[o].refund_reason =
                          IF rs # "" THEN rs ELSE payments[o].refund_reason
              ELSE /\ resp'.err = "ValueError"
                   /\ payments'[o].payment_status = payments[o].payment_status
                   /\ payments'[o].refunded_at = payments[o].refunded_at
                   /\ payments'[o].refund_reason = payments[o].refund_reason]_vars

\* a second refund of a Payment refunded with a reason has been refused
C18_Witness ==
    /\ resp = ReplyErr("initiate_refund", 0, "ValueError")
    /\ \E o \in DOMAIN payments :
           /\ payments[o].payment_status = "REFUNDED"
           /\ payments[o].refunded_at # None
           /\ payments[o].refund_reason = "reason"

\* a step of the creation handler
create_order_step ==
    /\ resp'.op = "create_order"
    /\ \E u \in Users, data \in PricingData, g \in GoogleModes,
          v \in BOOLEAN, ok \in BOOLEAN : create_order(u, data, g, v, ok)

\* C19: creating an order commits as one unit exactly one Order with status
\* PENDING, exactly one Payment for it with status PENDING and amount equal
\* to the order's total_price, and exactly one tracking event with status
\* PENDING at the pickup point; when the request fails (400, 500) none of
\* them is committed.
C19_CreateIsAtomic ==
    [][create_order_step =>
          IF resp'.code = 201
          THEN LET id == Len(orders) + 1
               IN /\ Len(orders') = id /\ Len(payments') = id /\ Len(tracking') = id
                  /\ \A o \in DOMAIN orders :
                         /\ orders'[o] = orders[o]
                         /\ payments'[o] = payments[o]
                         /\ tracking'[o] = tracking[o]
                  /\ orders'[id].status = "PENDING"
                  /\ payments'[id].payment_status = "PENDING"
                  /\ payments'[id].amount = orders'[id].total_price
                  /\ tracking'[id] = <<TrackingRow("PENDING", orders'[id].pickup)>>
          ELSE UNCHANGED db]_vars

\* an express weekend order has been created: one order, one payment of its
\* total price, one tracking row
C19_Witness ==
    /\ resp = Reply("create_order", 201)
    /\ Len(orders) = 1 /\ Len(payments) = 1 /\ Len(tracking) = 1
    /\ orders[1].is_express /\ orders[1].is_weekend
    /\ payments[1].amount = orders[1].total_price
    /\ payments[1].amount > orders[1].distance_price
    /\ Len(tracking[1]) = 1

\* the operations that change an order together with its tracking events and
\* notifications: cancellation, destination update, courier assignment, the
\* admin's and the courier's status change
OrderMutations ==
    {"cancel_order", "update_destination", "assign_courier",
     "admin_update_status", "courier_update_status"}

\* C20: every multi-entity order mutation is all-or-nothing: when the
\* operation reports an error, the orders, their tracking events and their
\* notifications are exactly as before the call; and when a status change is
\* committed, one tracking event carrying the new status and one notification
\* are committed with it.
C20_MutationsAllOrNothing ==
    [][resp'.op \in OrderMutations =>
          /\ resp'.code >= 400 => UNCHANGED <<orders, payments, tracking, notifications>>
          /\ \A o \in DOMAIN orders :
                 orders'[o].status # orders[o].status =>
                     /\ Len(tracking'[o]) = Len(tracking[o]) + 1
                     /\ tracking'[o][Len(tracking'[o])].status = orders'[o].status
                     /\ SubSeq(tracking'[o], 1, Len(tracking[o])) = tracking[o]
                     /\ notifications'[o] = notifications[o] + 1]_vars

\* the admin's override of a picked-up order, accepted by update_status, has
\* ended in an error: the order is as it was, with no tracking row added
C20_Witness ==
    /\ resp = ReplyErr("admin_update_status", 500, "NameError")
    /\ \E o \in DOMAIN orders :
           /\ orders[o].status = "PICKED_UP"
           /\ Len(tracking[o]) = 1
           /\ notifications[o] = 1

\* the handlers that change an order's status: assignment, the courier's
\* status update, the admin's override and cancellation
StatusHandlers ==
    {"assign_courier", "courier_update_status", "admin_update_status", "cancel_order"}

\* C21: every status transition committed by assignment, by the courier's
\* status update, by the admin's override or by cancellation appends exactly
\* one tracking event, which carries the new status, and emits exactly one
\* notification; a cancellation answered 200 is such a transition.
C21_TransitionAddsEventAndNotification ==
    [][resp'.op \in StatusHandlers =>
          /\ \A o \in DOMAIN orders :
                 /\ orders'[o].status # orders[o].status =>
                        /\ tracking'[o] =
                               Append(tracking[o], TrackingRow(orders'[o].status, orders[o].pickup))
                        /\ notifications'[o] = notifications[o] + 1
                 /\ orders'[o].status = orders[o].status =>
                        /\ tracking'[o] = tracking[o]
                        /\ notifications'[o] = notifications[o]
          /\ resp' = Reply("cancel_order", 200) =>
                 \E o \in DOMAIN orders :
                     /\ orders[o].status # "CANCELLED"
                     /\ orders'[o].status = "CANCELLED"]_vars

\* a cancellation was committed: the order's latest tracking event says
\* CANCELLED and the order has its second notification
C21_Witness ==
    /\ resp = Reply("cancel_order", 200)
    /\ \E o \in DOMAIN orders :
           /\ orders[o].status = "CANCELLED"
           /\ Len(tracking[o]) >= 2
           /\ tracking[o][Len(tracking[o])] = TrackingRow("CANCELLED", orders[o].pickup)
           /\ notifications[o] >= 2

\* C22: in every reachable state an order's actual-delivery timestamp is set
\* if and only if the order's status is DELIVERED.
C22_DeliveredIffTimestamp ==
    \A o \in DOMAIN orders :
        (orders[o].actual_delivery_time # None) <=> (orders[o].status = "DELIVERED")

\* an order was delivered and carries the time of its delivery
C22_Witness ==
    \E o \in DOMAIN orders :
        /\ orders[o].status = "DELIVERED"
        /\ orders[o].actual_delivery_time >= 1
        /\ resp = Reply("update_status", 0)

\* the courier bound to the order sends a location ping with coordinates
\* while the order is being delivered
BoundCourierPings(o, u, pt) ==
    /\ role(u) = "courier"
    /\ orders[o].courier_id = u
    /\ orders[o].status \in active_delivery_statuses
    /\ update_location(o, u, pt, TRUE)

\* C23: the tracking history is append-only: no step modifies or removes an
\* existing tracking event; every step that changes an order's status and
\* every location ping of the order's courier adds an event; and the event
\* added last carries the status the order has.
C23_TrackingAppendOnly ==
    [][\A o \in DOMAIN orders :
          /\ Len(tracking'[o]) >= Len(tracking[o])
          /\ SubSeq(tracking'[o], 1, Len(tracking[o])) = tracking[o]
          /\ orders'[o].status # orders[o].status => Len(tracking'[o]) = Len(tracking[o]) + 1
          /\ \A u \in Users, pt \in Pings :
                 BoundCourierPings(o, u, pt) =>
                     /\ Len(tracking'[o]) = Len(tracking[o]) + 1
                     /\ tracking'[o][Len(tracking'[o])].point = pt
          /\ tracking'[o] # <<>> =>
                 tracking'[o][Len(tracking'[o])].status = orders'[o].status]_vars

\* what holds of the view functions: none modifies or removes an event, each
\* of them that changes a status adds one event, and an event carries, when
\* it is added, the status the order then has; update_status called on its
\* own adds none, and no ping adds one (PingNeverAccepted)
ViewsAppendOneEvent ==
    [][resp'.op # "update_status" =>
          \A o \in DOMAIN orders :
              /\ Len(tracking'[o]) >= Len(tracking[o])
              /\ SubSeq(tracking'[o], 1, Len(tracking[o])) = tracking[o]
              /\ orders'[o].status # orders[o].status => Len(tracking'[o]) = Len(tracking[o]) + 1
              /\ Len(tracking'[o]) > Len(tracking[o])
                     => tracking'[o][Len(tracking'[o])].status = orders'[o].status]_vars

\* a body the claim says is to be rejected: a required field is missing, a
\* coordinate is out of range, or the weight is outside the allowed range
Defective(data, required) ==
    \/ \E k \in required : k \notin DOMAIN data
    \/ \E k \in {"pickup_lat", "destination_lat"} \cap DOMAIN data :
           data[k] < -900000 \/ data[k] > 900000
    \/ \E k \in {"pickup_lng", "destination_lng"} \cap DOMAIN data :
           data[k] < -1800000 \/ data[k] > 1800000
    \/ /\ "weight_kg" \in DOMAIN data
       /\ (data.weight_kg < MIN_WEIGHT \/ data.weight_kg > MAX_WEIGHT)

DefectiveCreateBodies == {data \in CreateBodies : Defective(data, CreateRequired)}

DefectiveDestinationBodies ==
    {data \in DestinationBodies : Defective(data, DestinationRequired)}

\* C24: validation finishes before any write: a creation request whose body
\* misses a required field, has a coordinate out of range or a weight
\* outside the allowed range is answered 400 with the errors of the
\* validator and creates no order, payment, tracking event or notification;
\* so is a destination update with such a body that the owner of a PENDING
\* order sends, and it changes none.
C24_ValidationBeforeWrites ==
    [][/\ (resp' = Reply("create_order", 400) /\ UNCHANGED db)
          \/ ~ \E u \in Users, data \in DefectiveCreateBodies, ok \in BOOLEAN :
                  post_order(u, data, "none", ok)
       /\ \A o \in DOMAIN orders, data \in DefectiveDestinationBodies, ok \in BOOLEAN :
              (/\ orders[o].status = "PENDING"
               /\ patch_destination(o, orders[o].user_id, data, "none", ok)) =>
                  (resp' = Reply("update_destination", 400) /\ UNCHANGED db)]_vars

\* what holds: a defective creation request is answered 400 and a defective
\* destination update 403, by the check of the sender that precedes the
\* validation; neither writes
DefectiveBodiesNeverWritten ==
    [][/\ (resp' = Reply("create_order", 400) /\ UNCHANGED db)
          \/ ~ \E u \in Users, data \in DefectiveCreateBodies, ok \in BOOLEAN :
                  post_order(u, data, "none", ok)
       /\ (resp' = Reply("update_destination", 403) /\ UNCHANGED db)
          \/ ~ \E o \in DOMAIN orders, u \in Users, data \in DefectiveDestinationBodies,
                  ok \in BOOLEAN : patch_destination(o, u, data, "none", ok)]_vars

\* C25: for coordinates that are present calculate_distance answers status
\* success whatever the routing provider does.
C25_SuccessForPresentCoordinates ==
    (call.fn = "calculate_distance" /\ call.done
        /\ call.args[1] # None /\ call.args[2] # None)
    => call.result.status = "success"

\* status error only without usable coordinates or for the opposite point,
\* and only when the provider has not answered OK; the fallback gives the
\* great-circle distance
DistanceFallback ==
    (call.fn = "calculate_distance" /\ call.done) =>
        LET o == call.args[1]
            d == call.args[2]
            g == call.args[3]
        IN /\ g = "ok" => call.result = [distance_km |-> Road(o, d), status |-> "success"]
           /\ (g # "ok" /\ o # None /\ d # None /\ <<o, d>> \notin Antipodes)
                  => call.result = [distance_km |-> Haversine(o, d), status |-> "success"]
           /\ call.result.status = "error"
                  => /\ g # "ok"
                     /\ o = None \/ d = None \/ <<o, d>> \in Antipodes
                     /\ call.result.distance_km = 0

Abs(x) == IF x < 0 THEN -x ELSE x

\* a price breakdown has been returned
priced == call.fn = "calculate_price_breakdown" /\ call.done

\* the percentage of each extra when its flag is set, in the order of the
\* arguments: fragile, insurance, express, weekend
ExtraPercents ==
    <<FRAGILE_CHARGE_PERCENT, INSURANCE_CHARGE_PERCENT,
      EXPRESS_CHARGE_PERCENT, WEEKEND_CHARGE_PERCENT>>

\* the extras of the returned breakdown, in the same order
ReturnedExtras ==
    <<call.result.extra_charges.fragile, call.result.extra_charges.insurance,
      call.result.extra_charges.express, call.result.extra_charges.weekend>>

\* the subtotal of the call: base price, distance price and weight price
Subtotal == call.result.base_price + call.result.distance_price + call.result.weight_price

\* C26: as stated: each active extra is exactly its percentage of the
\* subtotal, an inactive extra is 0, and the total is the subtotal plus the
\* sum of the extras.
C26_ExtrasAddUpExactly ==
    priced =>
        /\ \A i \in 1..4 :
               ReturnedExtras[i] * 100 =
                   IF call.args[i + 2] THEN Subtotal * ExtraPercents[i] ELSE 0
        /\ call.result.total_price =
               Subtotal + ReturnedExtras[1] + ReturnedExtras[2]
                        + ReturnedExtras[3] + ReturnedExtras[4]

\* C26, amended: each active extra is its percentage of the original
\* subtotal (fragile 15, insurance 10, express 25, weekend 20) rounded to the
\* nearest hundredth, and an inactive extra is 0; the total of the extras is
\* the sum of the active percentages of the subtotal rounded to the nearest
\* hundredth, and the total price is the subtotal plus that sum, rounded to
\* the nearest hundredth: no extra is computed on a base that includes
\* another extra.  For a subtotal of 100 with all flags the extras are 15,
\* 10, 25 and 20, 70 in all, and the total is 170.  The result carries base,
\* distance, weight, each extra and the total.
C26_ExtrasOnSubtotalToTheCent ==
    priced =>
        LET percents == [i \in 1..4 |-> IF call.args[i + 2] THEN ExtraPercents[i] ELSE 0]
            all == percents[1] + percents[2] + percents[3] + percents[4]
        IN /\ DOMAIN call.result =
                  {"base_price", "distance_price", "weight_price", "extra_charges",
                   "total_price"}
           /\ DOMAIN call.result.extra_charges =
                  {"fragile", "insurance", "express", "weekend", "total"}
           /\ Subtotal = call.args[1] * DISTANCE_RATE
           /\ \A i \in 1..4 :
                  /\ ~call.args[i + 2] => ReturnedExtras[i] = 0
                  /\ 2 * Abs(ReturnedExtras[i] * 100 - Subtotal * percents[i]) <= 100
           /\ 2 * Abs(call.result.extra_charges.total * 100 - Subtotal * all) <= 100
           /\ 2 * Abs(call.result.total_price * 100 - Subtotal * (100 + all)) <= 100
           /\ (Subtotal = 10000 /\ all = 70)
                  => /\ ReturnedExtras = <<1500, 1000, 2500, 2000>>
                     /\ call.result.extra_charges.total = 7000
                     /\ call.result.total_price = 17000

\* the breakdown for 100 km with all four extras: 15, 10, 25 and 20, 70 in
\* all, 170 in total
C26_Witness ==
    /\ priced
    /\ call.args = <<10000, 3000, TRUE, TRUE, TRUE, TRUE>>
    /\ Subtotal = 10000
    /\ ReturnedExtras = <<1500, 1000, 2500, 2000>>
    /\ call.result.extra_charges.total = 7000
    /\ call.result.total_price = 17000

\* the breakdown for 10.10 km, fragile and at the weekend: the surcharges
\* are 1.515 and 2.02, listed as 1.51 and 2.02; their sum 3.535 is listed as
\* 3.54 and the total 13.635 as 13.63
RoundedApart ==
    /\ priced
    /\ call.args = <<1010, 3000, TRUE, FALSE, FALSE, TRUE>>
    /\ ReturnedExtras = <<151, 0, 0, 202>>
    /\ call.result.extra_charges.total = 354
    /\ call.result.total_price = 1363

\* the estimate in minutes before it is truncated, times speed * 100:
\* (distance / 100) / speed * 60 + 15
ExactMinutes(distance_km, speed) == distance_km * 60 + 15 * speed * 100

\* C27: as stated: the estimate equals distance / speed * 60 + 15, with
\* speed 60 km/h for express and 40 km/h otherwise, clamped to [30, 480]: it
\* lies in [30, 480], is non-decreasing in the distance, is 30 for distance
\* 0 and 480 for 1000 km, and the express estimate never exceeds the
\* non-express estimate for the same distance.
C27_EstimateIsTheFormula ==
    (call.fn = "calculate_estimated_delivery_time" /\ call.done) =>
        LET d == call.args[1]
            speed == IF call.args[2] THEN 60 ELSE 40
            exact == ExactMinutes(d, speed)
            r == call.result
        IN /\ r >= 30 /\ r <= 480
           /\ exact <= 30 * speed * 100 => r = 30
           /\ exact >= 480 * speed * 100 => r = 480
           /\ (30 * speed * 100 < exact /\ exact < 480 * speed * 100)
                  => r * speed * 100 = exact
           /\ \A d2 \in EtaDistances :
                  d2 <= d => calculate_estimated_delivery_time(d2, call.args[2]) <= r
           /\ d = 0 => r = 30
           /\ (d = 100000 /\ ~call.args[2]) => r = 480
           /\ call.args[2] => r <= calculate_estimated_delivery_time(d, FALSE)
           /\ ~call.args[2] => r >= calculate_estimated_delivery_time(d, TRUE)

\* C27, amended: the estimate is the integer part of distance / speed * 60 +
\* 15 (the fraction of a minute is dropped), with speed 60 km/h for express
\* and 40 km/h otherwise, clamped to [30, 480]: it lies in [30, 480], is
\* non-decreasing in the distance, is 30 for distance 0 and 480 for 1000 km,
\* and the express estimate never exceeds the non-express estimate for the
\* same distance.
C27_EstimateClampedAndMonotone ==
    (call.fn = "calculate_estimated_delivery_time" /\ call.done) =>
        LET d == call.args[1]
            speed == IF call.args[2] THEN 60 ELSE 40
            r == call.result
            exact == ExactMinutes(d, speed)
        IN /\ r >= 30 /\ r <= 480
           /\ (r > 30 /\ r < 480)
                  => (r * speed * 100 <= exact /\ exact < (r + 1) * speed * 100)
           /\ r = 30 => exact < 31 * speed * 100
           /\ r = 480 => exact >= 480 * speed * 100
           /\ \A d2 \in EtaDistances :
                  d2 <= d => calculate_estimated_delivery_time(d2, call.args[2]) <= r
           /\ d = 0 => r = 30
           /\ (d = 100000 /\ ~call.args[2]) => r = 480
           /\ call.args[2] => r <= calculate_estimated_delivery_time(d, FALSE)
           /\ ~call.args[2] => r >= calculate_estimated_delivery_time(d, TRUE)

\* the express estimate for 310 km, 325 minutes; the non-express estimate
\* for the same distance is the maximum, 480
C27_Witness ==
    /\ call.fn = "calculate_estimated_delivery_time" /\ call.done
    /\ call.args = <<31000, TRUE>>
    /\ call.result = 325
    /\ calculate_estimated_delivery_time(31000, FALSE) = 480

\* the bands of the claim, in thousandths of a kilogram
Band(weight_kg) ==
    IF weight_kg < 5000 THEN "SMALL"
    ELSE IF weight_kg >= 5000 /\ weight_kg < 20000 THEN "MEDIUM"
    ELSE IF weight_kg >= 20000 /\ weight_kg < 50000 THEN "LARGE"
    ELSE "XLARGE"

\* weights on both sides of every boundary and at the validator's limits
BandWeights ==
    {MIN_WEIGHT, 4990, 4999, 5000, 5010, 19990, 19999, 20000, 49999, 50000, 50010,
     MAX_WEIGHT}

\* C28: the weight category is the band of the weight (5, 20 and 50 kg belong
\* to the higher band), and the category stored on an order is the one the
\* function gives for the weight stored on the order.
C28_StoredCategoryIsBandOfWeight ==
    /\ \A w \in BandWeights : determine_weight_category(w) = Band(w)
    /\ \A o \in DOMAIN orders :
           orders[o].weight_category = determine_weight_category(orders[o].weight_kg)

\* the category of an order is the band of the weight that was submitted,
\* which the weight column keeps to the nearest hundredth of a kilogram
CategoryOfSubmittedWeight ==
    /\ \A w \in BandWeights : determine_weight_category(w) = Band(w)
    /\ \A o \in DOMAIN orders :
           \E w \in (orders[o].weight_kg - 5)..(orders[o].weight_kg + 4) :
               /\ Numeric2(w) = orders[o].weight_kg
               /\ orders[o].weight_category = Band(w)

\* a phone number has been normalized
formatted == call.fn = "_format_phone" /\ call.done

\* C29: for every input the normalized number starts with 254 and contains
\* no space or dash, and normalizing it again returns it unchanged.
C29_NormalizedAndIdempotent ==
    formatted =>
        /\ startswith(call.result, <<50, 53, 52>>)
        /\ \A i \in 1..Len(call.result) : call.result[i] \notin {32, 45}
        /\ format_phone(call.result) = call.result

\* the result starts with 254 and has no space or dash for every input; it
\* is a fixed point when the input has no whitespace other than the space
NormalizedWithoutOtherWhitespace ==
    formatted =>
        /\ startswith(call.result, <<50, 53, 52>>)
        /\ \A i \in 1..Len(call.result) : call.result[i] \notin {32, 45}
        /\ (\A i \in 1..Len(call.args[1]) : call.args[1][i] \notin Whitespace \ {32})
               => format_phone(call.result) = call.result

\* parse_callback has returned for an envelope
parsed_envelope ==
    call.fn = "parse_callback" /\ call.done /\ call.args[1].shape = "envelope"

\* the metadata of the result: amount, receipt, date and phone number
ResultMetadata ==
    <<call.result.amount, call.result.receipt_number,
      call.result.transaction_date, call.result.phone_number>>

\* what the items of a body give for the four names
ItemsMetadata(items) ==
    <<ItemValue(items, "Amount"), ItemValue(items, "MpesaReceiptNumber"),
      ItemString(items, "TransactionDate"), ItemString(items, "PhoneNumber")>>

\* success exactly on ResultCode 0, with the metadata of the items; failure
\* without metadata on any other code; the checkout id in both cases
parse_result_ok ==
    LET body == call.args[1]
        items == IF body.metadata = "items" THEN body.items ELSE <<>>
    IN /\ call.result.success <=> (body.code = 0)
       /\ body.code = 0 => ResultMetadata = ItemsMetadata(items)
       /\ body.code # 0 => ResultMetadata = <<None, None, None, None>>
       /\ call.result.parsed
       /\ call.result.checkout_request_id = body.cid

\* C30: as stated, for every envelope: success exactly when ResultCode is
\* 0, with Amount, MpesaReceiptNumber, TransactionDate and PhoneNumber taken
\* from the items; failure and no metadata on any other code; the
\* envelope's CheckoutRequestID in both cases.
C30_SuccessIffResultCodeZero == parsed_envelope => parse_result_ok

\* what holds: success exactly when ResultCode is 0 and the metadata can be
\* read; an envelope with ResultCode 0 whose metadata cannot be read
\* (CallbackMetadata null, an Item that is no list of objects) is reported
\* as a failure without correlation id and without metadata
SuccessIffCodeZeroAndReadable ==
    parsed_envelope =>
        LET body == call.args[1]
            unreadable ==
                \/ body.metadata \in {"no_object", "not_iterable"}
                \/ body.metadata = "items" /\ \E i \in 1..Len(body.items) : ~body.items[i].object
        IN IF body.code = 0 /\ unreadable
           THEN call.result = parse_error
           ELSE parse_result_ok

\* C31: the follow-up write of an initiation whose gateway call failed leaves
\* a Payment PAID that a success result made PAID while the request was in
\* flight (the initiation itself starts only on a Payment that is not PAID).
C31_FailedFollowUpKeepsPaid ==
    [][\A r \in inflight :
          (/\ r.kind = "initiate" /\ ~r.success
           /\ is_paid(payments[r.order])
           /\ initiate_finish(r))
          => is_paid(payments'[r.order])]_vars

\* no handler ever stores a checkout id: no initiation gets as far as the
\* gateway, and nothing is in flight that carries an id
NoCheckoutIdStored ==
    /\ \A o \in DOMAIN payments : payments[o].checkout_request_id = None
    /\ \A r \in inflight : r.kind = "initiate" /\ ~r.success /\ r.cid = None

\* C33: a callback changes only a Payment whose stored checkout_request_id is
\* the checkout id the callback carries, and a callback that carries no
\* checkout id changes no Payment.
C33_CallbackChangesMatchedPaymentOnly ==
    [][\A d \in CallbackPayloads :
          mpesa_callback(d, TRUE) =>
              \A o \in DOMAIN payments :
                  payments'[o] # payments[o] =>
                      /\ parse_callback(d).checkout_request_id # None
                      /\ payments[o].checkout_request_id =
                             parse_callback(d).checkout_request_id]_vars

\* what holds instead: the Payment a callback changes is one the lookup by
\* the parsed checkout id returns, the NULL of a Payment never initiated
\* included
CallbackChangesLookedUpPaymentOnly ==
    [][\A d \in CallbackPayloads, cfg \in BOOLEAN :
          mpesa_callback(d, cfg) =>
              \A o \in DOMAIN payments :
                  payments'[o] # payments[o] =>
                      o \in payments_by_checkout(parse_callback(d).checkout_request_id)]_vars

\* C34: initiating payment (by either view function) for an order whose Payment is
\* PAID is rejected before any write and before the gateway is called: the
\* Payment (status, phone, checkout id and every other column) is unchanged
\* and no request is left in flight.
C34_PaidOrderNotInitiated ==
    [][\A o \in OrderIds, ph \in Phones, cfg \in BOOLEAN :
          (/\ o \in DOMAIN payments
           /\ payments[o].payment_status = "PAID"
           /\ (initiate_payment(o, ph, cfg) \/ pay_for_order(o, ph)))
          => /\ payments' = payments
             /\ inflight' = inflight
             /\ resp'.code = 400
             /\ resp'.err = "Order already paid"]_vars

\* an initiation for a paid order has just been refused: the Payment is PAID
\* and no request is in flight
C34_Witness ==
    /\ resp = ReplyErr("initiate_payment", 400, "Order already paid")
    /\ inflight = {}
    /\ \E o \in DOMAIN payments :
           /\ payments[o].payment_status = "PAID"
           /\ payments[o].paid_at # None

\* C35: in every reachable state each order has its one Payment, and the
\* Payment's amount is the order's current total_price.
C35_OnePaymentWithCurrentTotal ==
    /\ DOMAIN payments = DOMAIN orders
    /\ \A o \in DOMAIN orders : payments[o].amount = orders[o].total_price

\* the second initiation for a fragile parcel has ended: the order still has
\* its one Payment, failed twice, with the amount of the order's total
C35_Witness ==
    /\ resp = ReplyErr("initiate_payment", 400, "DetachedInstanceError")
    /\ Len(orders) = 1 /\ Len(payments) = 1
    /\ orders[1].fragile
    /\ payments[1].payment_status = "FAILED"
    /\ payments[1].failed_at = 2
    /\ payments[1].amount = orders[1].total_price
    /\ payments[1].amount > orders[1].distance_price

\* C36: a Payment's timestamps agree with its status.  In every reachable
\* state PAID implies paid_at is set, FAILED implies failed_at is set and
\* REFUNDED implies paid_at and refunded_at are set; a Payment is created
\* without paid_at, and paid_at is only ever written by a step that leaves the
\* Payment PAID, so a Payment that has never been PAID has none.
C36_TimestampsAgreeWithStatus ==
    /\ [](\A o \in DOMAIN payments :
              /\ payments[o].payment_status = "PAID" => payments[o].paid_at # None
              /\ payments[o].payment_status = "FAILED" => payments[o].failed_at # None
              /\ payments[o].payment_status = "REFUNDED" =>
                     payments[o].paid_at # None /\ payments[o].refunded_at # None)
    /\ [][\A o \in DOMAIN payments' :
              IF o \in DOMAIN payments
              THEN payments'[o].paid_at # payments[o].paid_at =>
                       payments'[o].payment_status = "PAID"
              ELSE payments'[o].paid_at = None]_vars

\* a Payment was paid and then refunded: it carries both times, the refund
\* after the payment
C36_Witness ==
    /\ resp = Reply("initiate_refund", 0)
    /\ \E o \in DOMAIN payments :
           /\ payments[o].payment_status = "REFUNDED"
           /\ payments[o].paid_at # None
           /\ payments[o].refunded_at > payments[o].paid_at

\* the location ping of user u for order o is one the handler is to accept:
\* u is the courier bound to the order, the order is picked up or in transit
\* and the coordinates are valid numbers
PingAcceptable(o, u, coords_ok) ==
    /\ coords_ok
    /\ o \in DOMAIN orders
    /\ role(u) = "courier"
    /\ orders[o].courier_id = u
    /\ orders[o].status \in {"PICKED_UP", "IN_TRANSIT"}

\* C37: a location ping from the courier bound to the order, sent while the
\* order is PICKED_UP or IN_TRANSIT, is accepted: it appends one tracking
\* event with the given point and the order's status and changes neither the
\* order (status, courier, prices) nor the payment; a ping in any other
\* status or from anyone else is rejected and changes nothing.
C37_PingAppendsOneEventOnly ==
    [][resp'.op = "update_location" =>
       \A o \in OrderIds, u \in Users, pt \in Pings, v \in BOOLEAN :
          \/ IF PingAcceptable(o, u, v)
             THEN /\ resp' = Reply("update_location", 200)
                  /\ tracking' = [tracking EXCEPT
                         ![o] = Append(@, TrackingRow(orders[o].status, pt))]
                  /\ UNCHANGED <<orders, payments, notifications>>
             ELSE /\ resp'.code \in {400, 403, 500}
                  /\ UNCHANGED <<orders, payments, tracking, notifications>>
          \/ ~update_location(o, u, pt, v)]_vars

\* what holds instead: no ping is accepted and no ping changes anything; the
\* identity of a token never equals the courier_id of an order
PingNeverAccepted ==
    [][resp'.op = "update_location" =>
          /\ resp'.code \in {400, 403, 500}
          /\ UNCHANGED <<orders, payments, tracking, notifications>>]_vars

\* C38: the courier's status update changes an order's status only when the
\* caller is the courier bound to the order and the new status is PICKED_UP,
\* IN_TRANSIT or DELIVERED.  A request for PENDING, ASSIGNED or CANCELLED is
\* refused as invalid (400), a request by a courier who is not the one bound
\* to the order is refused as unauthorized (403), and both leave the order,
\* its tracking history, its payment and its notifications unchanged.
C38_CourierUpdateOnlyByBoundCourier ==
    [][resp'.op = "courier_update_status" =>
       \A o \in DOMAIN orders, s \in StatusStrings, u \in Couriers :
          \/ /\ orders'[o].status # orders[o].status =>
                    /\ orders[o].courier_id = u
                    /\ s \in {"PICKED_UP", "IN_TRANSIT", "DELIVERED"}
                    /\ orders'[o].status = s
             /\ s \in {"PENDING", "ASSIGNED", "CANCELLED"} =>
                    /\ resp'.code = 400
                    /\ UNCHANGED <<orders, tracking, payments, notifications>>
             /\ (s \in {"PICKED_UP", "IN_TRANSIT", "DELIVERED"} /\ orders[o].courier_id # u) =>
                    /\ resp'.code = 403
                    /\ UNCHANGED <<orders, tracking, payments, notifications>>
          \/ ~update_order_status(o, s, u)]_vars

\* a courier asked for a status of an order in transit that another party
\* holds (no courier is bound to it) and was told they are not assigned
C38_Witness ==
    /\ resp = ReplyErr("courier_update_status", 403, "You are not assigned to this order")
    /\ \E o \in DOMAIN orders :
           /\ orders[o].courier_id = None
           /\ orders[o].status = "IN_TRANSIT"
           /\ Len(tracking[o]) = 1

\* user u is neither an admin, nor the customer who owns order o, nor the
\* courier bound to it
Stranger(o, u) ==
    \/ role(u) = "customer" /\ orders[o].user_id # u
    \/ role(u) = "courier" /\ orders[o].courier_id # u

\* C39: a cancel request from a customer who does not own the order, or from
\* a courier who is not bound to it, is refused with 403 and leaves the order
\* and its payment unchanged.
C39_CancelOnlyByOwnerCourierOrAdmin ==
    [][\A o \in DOMAIN orders, u \in Users :
          \/ ~Stranger(o, u)
          \/ /\ resp'.code = 403
             /\ orders'[o] = orders[o]
             /\ payments'[o] = payments[o]
          \/ ~cancel_order(o, u, TRUE)]_vars

\* what holds instead: whoever asks, an order that can be cancelled is
\* cancelled unless the commit fails
CancelByAnyone ==
    [][\A o \in DOMAIN orders, u \in Users :
          \/ ~can_cancel(orders[o].status)
          \/ orders'[o].status = "CANCELLED" /\ resp' = Reply("cancel_order", 200)
          \/ ~cancel_order(o, u, TRUE)]_vars

\* C40: in every reachable state an order that is ASSIGNED, PICKED_UP,
\* IN_TRANSIT or DELIVERED has a courier bound to it, and the bound user is a
\* courier.
C40_ActiveOrderHasCourier ==
    \A o \in DOMAIN orders :
        orders[o].status \in {"ASSIGNED", "PICKED_UP", "IN_TRANSIT", "DELIVERED"} =>
            /\ orders[o].courier_id # None
            /\ role(orders[o].courier_id) = "courier"

\* what holds instead: the assignment handler never changes an order, and
\* whatever courier reference an order has was given to update_status with
\* the PICKED_UP transition
AssignmentNeverApplied ==
    [][/\ resp'.op = "assign_courier" => UNCHANGED <<orders, tracking, notifications>>
       /\ \A o \in DOMAIN orders :
              orders'[o].courier_id # orders[o].courier_id =>
                  /\ resp' = Reply("update_status", 0)
                  /\ orders[o].status = "PENDING"
                  /\ orders'[o].status = "PICKED_UP"]_vars

====
